---- MODULE Spec2Model ----
(***************************************************************************)
(* google-workspace-mcp: the operation handlers (src/tools/*.ts), the      *)
(* identity resolver and delegated client factory (src/auth.ts) and the    *)
(* response normalisation helpers (src/utils.ts).                          *)
(*                                                                         *)
(* JavaScript runs a handler synchronously between two awaits, so one      *)
(* action is one such segment: Invoke runs a handler from its entry to its *)
(* first backend call (or to its return), Respond delivers one backend     *)
(* response and runs the handler to its next backend call or its return.   *)
(* The order of the steps inside a segment is kept in the invocation's     *)
(* trace.                                                                  *)
(***************************************************************************)
EXTENDS Integers, Sequences, FiniteSets, TLC

VARIABLES env, cachedKey, keyReads, contexts, inv, mail, rb, tr, fn

vars == <<env, cachedKey, keyReads, contexts, inv, mail, rb, tr, fn>>

\* The state of the handlers and of the client factory.
hvars == <<env, cachedKey, keyReads, contexts, inv>>

\* ------------------------------------------------------------------ bounds
MaxInv == 2
MaxMessages == 2
MaxPages == 2
MaxUsers == 2
MaxParts == 2
MaxHtmlLen == 3
MaxTextLen == 4
MaxLimit == 3
MaxUnder == 2
MaxTail == 3
MaxElements == 2
MaxSuffix == 2
MaxRows == 2
MaxCols == 2
MaxChildren == 2
MaxInnerChildren == 2
MaxNotes == 3
MaxPageElements == 2
MaxNear == 10
MaxData == 3

Invs == 1..MaxInv

\* --------------------------------------------------------------- constants
NONE == "none"

Falsy(x) == x \in {NONE, ""}

Emails == {"alice@corp.example", "bob@corp.example"}

DefaultEmail == "default@corp.example"

MsgNoDefaultEmail == "GW_USER_EMAIL environment variable is not set. Set it in your .env file or pass userEmail explicitly."

MsgNoKeyPath == "GOOGLE_SERVICE_ACCOUNT_KEY_PATH environment variable is not set. Set it to the path of your service account JSON key file."

MsgReadFailed == "ENOENT: no such file or directory"

MsgParseFailed == "Unexpected token in JSON"

MsgBackend == "backend request failed"

MsgExtractor == "extractor threw"

\* ------------------------------------------------------------------ scopes
SCOPES ==
  { "https://www.googleapis.com/auth/gmail.readonly",
    "https://www.googleapis.com/auth/drive.readonly",
    "https://www.googleapis.com/auth/admin.directory.user.readonly",
    "https://www.googleapis.com/auth/spreadsheets.readonly",
    "https://www.googleapis.com/auth/documents.readonly" }

Apis == {"gmail", "drive", "admin", "sheets", "docs", "calendar", "slides"}

RequiredScope(api) ==
  CASE api = "gmail"    -> "https://www.googleapis.com/auth/gmail.readonly"
    [] api = "drive"    -> "https://www.googleapis.com/auth/drive.readonly"
    [] api = "admin"    -> "https://www.googleapis.com/auth/admin.directory.user.readonly"
    [] api = "sheets"   -> "https://www.googleapis.com/auth/spreadsheets.readonly"
    [] api = "docs"     -> "https://www.googleapis.com/auth/documents.readonly"
    [] api = "calendar" -> "https://www.googleapis.com/auth/calendar.readonly"
    [] api = "slides"   -> "https://www.googleapis.com/auth/presentations.readonly"

\* ------------------------------------------------------------------- tools
GmailTools == {"search_emails", "get_email", "get_email_attachment", "list_labels"}

DriveTools == {"search_drive_files", "get_file_content", "get_file_metadata"}

SheetsTools == {"get_spreadsheet", "read_sheet_range", "batch_read_sheet_ranges"}

DocsTools == {"get_document", "get_document_structure"}

CalendarTools == {"list_calendars", "search_events", "get_event", "get_freebusy"}

SlidesTools == {"search_presentations", "get_presentation", "get_slide"}

AdminTools == {"list_users"}

Tools ==
  GmailTools \cup DriveTools \cup SheetsTools \cup DocsTools \cup CalendarTools
    \cup SlidesTools \cup AdminTools

\* The handlers whose schema declares userEmail optional and whose body calls
\* getDefaultUserEmail(); the others declare userEmail required and pass it on.
OptionalEmailTools == GmailTools \cup DocsTools \cup CalendarTools \cup SlidesTools

\* ErrorPhrase with the phrase of one handler written without the "Error ...: " form.
ErrorPhrase_Bare(tool) ==
  IF tool = "get_file_content" THEN "Could not read file. "
  ELSE IF tool \in {"search_emails", "get_email", "get_email_attachment", "list_labels"}
    THEN "Error reading mail: " ELSE "Error calling backend: "

\* The text every handler's outer catch puts in front of the message.
ErrorPhrase(tool) ==
  CASE tool = "search_emails"           -> "Error searching emails: "
    [] tool = "get_email"               -> "Error getting email: "
    [] tool = "get_email_attachment"    -> "Error getting attachment: "
    [] tool = "list_labels"             -> "Error listing labels: "
    [] tool = "search_drive_files"      -> "Error searching Drive: "
    [] tool = "get_file_content"        -> "Error reading file: "
    [] tool = "get_file_metadata"       -> "Error getting file metadata: "
    [] tool = "get_spreadsheet"         -> "Error getting spreadsheet: "
    [] tool = "read_sheet_range"        -> "Error reading sheet range: "
    [] tool = "batch_read_sheet_ranges" -> "Error reading sheet ranges: "
    [] tool = "get_document"            -> "Error getting document: "
    [] tool = "get_document_structure"  -> "Error getting document structure: "
    [] tool = "list_calendars"          -> "Error listing calendars: "
    [] tool = "search_events"           -> "Error searching events: "
    [] tool = "get_event"               -> "Error getting event: "
    [] tool = "get_freebusy"            -> "Error querying free/busy: "
    [] tool = "search_presentations"    -> "Error searching presentations: "
    [] tool = "get_presentation"        -> "Error getting presentation: "
    [] tool = "get_slide"               -> "Error getting slide: "
    [] tool = "list_users"              -> "Error listing users: "

\* The first backend request a handler sends.
FirstRequest(tool) ==
  CASE tool = "search_emails"           -> [api |-> "gmail", req |-> "users.messages.list"]
    [] tool = "get_email"               -> [api |-> "gmail", req |-> "users.messages.get"]
    [] tool = "get_email_attachment"    -> [api |-> "gmail", req |-> "users.messages.get"]
    [] tool = "list_labels"             -> [api |-> "gmail", req |-> "users.labels.list"]
    [] tool = "search_drive_files"      -> [api |-> "drive", req |-> "files.list"]
    [] tool = "get_file_content"        -> [api |-> "drive", req |-> "files.get"]
    [] tool = "get_file_metadata"       -> [api |-> "drive", req |-> "files.get"]
    [] tool = "get_spreadsheet"         -> [api |-> "sheets", req |-> "spreadsheets.get"]
    [] tool = "read_sheet_range"        -> [api |-> "sheets", req |-> "spreadsheets.values.get"]
    [] tool = "batch_read_sheet_ranges" -> [api |-> "sheets", req |-> "spreadsheets.values.batchGet"]
    [] tool = "get_document"            -> [api |-> "docs", req |-> "documents.get"]
    [] tool = "get_document_structure"  -> [api |-> "docs", req |-> "documents.get"]
    [] tool = "list_calendars"          -> [api |-> "calendar", req |-> "calendarList.list"]
    [] tool = "search_events"           -> [api |-> "calendar", req |-> "events.list"]
    [] tool = "get_event"               -> [api |-> "calendar", req |-> "events.get"]
    [] tool = "get_freebusy"            -> [api |-> "calendar", req |-> "freebusy.query"]
    [] tool = "search_presentations"    -> [api |-> "drive", req |-> "files.list"]
    [] tool = "get_presentation"        -> [api |-> "slides", req |-> "presentations.get"]
    [] tool = "get_slide"               -> [api |-> "slides", req |-> "presentations.pages.get"]
    [] tool = "list_users"              -> [api |-> "admin", req |-> "users.list"]

\* -------------------------------------------------------------------- auth
Ok(v) == [ok |-> TRUE, value |-> v, error |-> NONE]

Throw(msg) == [ok |-> FALSE, value |-> NONE, error |-> msg]

\* process.env.GW_USER_EMAIL, or the configuration error.
getDefaultUserEmail(e) ==
  IF Falsy(e.GW_USER_EMAIL) THEN Throw(MsgNoDefaultEmail) ELSE Ok(e.GW_USER_EMAIL)

\* ResolveIdentity with the operands of || swapped: the default wins.
ResolveIdentity_DefaultFirst(userEmail, e) ==
  IF ~Falsy(e.GW_USER_EMAIL) THEN Ok(e.GW_USER_EMAIL)
  ELSE IF ~Falsy(userEmail) THEN Ok(userEmail) ELSE Throw(MsgNoDefaultEmail)

\* `userEmail || getDefaultUserEmail()`, the first statement of every handler
\* whose userEmail is optional.
ResolveIdentity(userEmail, e) ==
  IF ~Falsy(userEmail) THEN Ok(userEmail) ELSE getDefaultUserEmail(e)

\* The identity a handler hands to createAuthClient.
HandlerIdentity(tool, userEmail, e) ==
  IF tool \in OptionalEmailTools THEN ResolveIdentity(userEmail, e) ELSE Ok(userEmail)

\* getServiceAccountKey without the test of cachedKey: the file is read on
\* every call.
getServiceAccountKey_NoCache(cached, e) ==
  IF Falsy(e.keyPath)
    THEN [ok |-> FALSE, key |-> NONE, error |-> MsgNoKeyPath, cache |-> cached, read |-> FALSE]
  ELSE IF e.keyFile = "missing"
    THEN [ok |-> FALSE, key |-> NONE, error |-> MsgReadFailed, cache |-> cached, read |-> FALSE]
  ELSE IF e.keyFile = "malformed"
    THEN [ok |-> FALSE, key |-> NONE, error |-> MsgParseFailed, cache |-> cached, read |-> TRUE]
  ELSE [ok |-> TRUE, key |-> e.keyFile, error |-> NONE, cache |-> e.keyFile, read |-> TRUE]

\* getServiceAccountKey that keeps what it read before it is parsed.
getServiceAccountKey_KeepsRaw(cached, e) ==
  IF cached # NONE
    THEN [ok |-> cached # "malformed", key |-> cached,
          error |-> IF cached = "malformed" THEN MsgParseFailed ELSE NONE,
          cache |-> cached, read |-> FALSE]
  ELSE IF Falsy(e.keyPath)
    THEN [ok |-> FALSE, key |-> NONE, error |-> MsgNoKeyPath, cache |-> cached, read |-> FALSE]
  ELSE IF e.keyFile = "missing"
    THEN [ok |-> FALSE, key |-> NONE, error |-> MsgReadFailed, cache |-> cached, read |-> FALSE]
  ELSE IF e.keyFile = "malformed"
    THEN [ok |-> FALSE, key |-> NONE, error |-> MsgParseFailed, cache |-> e.keyFile, read |-> TRUE]
  ELSE [ok |-> TRUE, key |-> e.keyFile, error |-> NONE, cache |-> e.keyFile, read |-> TRUE]

\* cached: the module-level cachedKey. Returns the key (or the error), the new
\* value of cachedKey and whether the key file was read to its end.
getServiceAccountKey(cached, e) ==
  IF cached # NONE
    THEN [ok |-> TRUE, key |-> cached, error |-> NONE, cache |-> cached, read |-> FALSE]
  ELSE IF Falsy(e.keyPath)
    THEN [ok |-> FALSE, key |-> NONE, error |-> MsgNoKeyPath, cache |-> cached, read |-> FALSE]
  ELSE IF e.keyFile = "missing"
    THEN [ok |-> FALSE, key |-> NONE, error |-> MsgReadFailed, cache |-> cached, read |-> FALSE]
  ELSE IF e.keyFile = "malformed"
    THEN [ok |-> FALSE, key |-> NONE, error |-> MsgParseFailed, cache |-> cached, read |-> TRUE]
  ELSE [ok |-> TRUE, key |-> e.keyFile, error |-> NONE, cache |-> e.keyFile, read |-> TRUE]

\* createAuthClient that memoizes the client the way the key is memoized.
createAuthClient_Cached(userEmail, cached, e, ctxs) ==
  LET k == getServiceAccountKey(cached, e) IN
  [ ok |-> k.ok, error |-> k.error, cache |-> k.cache, read |-> k.read,
    ctx |-> IF ~k.ok THEN [id |-> 0, key |-> NONE, scopes |-> {}, subject |-> NONE]
            ELSE IF ctxs # {} THEN CHOOSE c \in ctxs : c.id = 1
            ELSE [id |-> 1, key |-> k.key, scopes |-> SCOPES, subject |-> userEmail] ]

\* new google.auth.JWT({email, key, scopes: SCOPES, subject: userEmail}): a new
\* object of the heap `ctxs` on every call.
createAuthClient(userEmail, cached, e, ctxs) ==
  LET k == getServiceAccountKey(cached, e) IN
  [ ok |-> k.ok, error |-> k.error, cache |-> k.cache, read |-> k.read,
    ctx |-> IF k.ok
              THEN [id |-> Cardinality(ctxs) + 1, key |-> k.key, scopes |-> SCOPES,
                    subject |-> userEmail]
              ELSE [id |-> 0, key |-> NONE, scopes |-> {}, subject |-> NONE] ]

\* --------------------------------------------------------------- envelopes
TextItem(segments) == [type |-> "text", text |-> segments]

DataItem(kind) == [type |-> kind, text |-> <<>>]

NoEnvelope == [content |-> <<>>, isError |-> FALSE]

Success(items) == [content |-> items, isError |-> FALSE]

HintAdmin == "Ensure the userEmail is a Workspace admin and that domain-wide delegation includes the admin.directory.user.readonly scope."

\* Catch that forgets the isError flag.
Catch_NoErrorFlag(tool, message) ==
  [content |-> << TextItem(<<ErrorPhrase(tool), message>>) >>, isError |-> FALSE]

\* The outer catch of every handler.
Catch(tool, message) ==
  [ content |->
      << TextItem(<<ErrorPhrase(tool), message>>
                    \o (IF tool = "list_users" THEN <<HintAdmin>> ELSE <<>>)) >>,
    isError |-> TRUE ]

\* ExportFailed that hands the failure to the outer catch's text.
ExportFailed_Generic(message, link) ==
  [ content |-> << TextItem(<<"Error reading file: ", message>>) >>, isError |-> TRUE ]

\* get_file_content, the catch around drive.files.export.
ExportFailed(message, link) ==
  [ content |->
      << TextItem(<<"[label: name]", "Failed to export: ", message,
                    "The file may be too large to export (10 MB limit). View it at: ",
                    IF Falsy(link) THEN "N/A" ELSE link>>) >>,
    isError |-> TRUE ]

\* get_email_attachment, attResponse.data.data is empty.
EmptyAttachment ==
  [content |-> << TextItem(<<"Attachment data is empty.">>) >>, isError |-> TRUE]

\* ------------------------------------------------------------- invocations
NoReq == [api |-> NONE, req |-> NONE]

Ev(e, w, c, s) == [ev |-> e, what |-> w, ctx |-> c, subject |-> s]

\* A handler that has not been entered. n, k, cap, pages and link are the
\* handler's locals that live across an await (messages.length and
\* results.length of search_emails; allUsers.length, maxResults and the number
\* of pages of list_users; webViewLink of get_file_content). answers is the
\* history of the backend answers the invocation was given.
Idle ==
  [ pc |-> "idle", tool |-> NONE, userEmail |-> NONE, resolved |-> NONE, ctx |-> 0,
    req |-> NoReq, cap |-> 0, n |-> 0, k |-> 0, pages |-> 0, link |-> NONE,
    result |-> NoEnvelope, trace |-> <<>>, answers |-> <<>> ]

SubjectOf(id, ctxs) ==
  IF \E c \in ctxs : c.id = id THEN (CHOOSE c \in ctxs : c.id = id).subject ELSE NONE

Log(s, e) == [s EXCEPT !.trace = Append(@, e)]

\* `return {content, isError?}` of a handler.
Return(s, envelope) ==
  [s EXCEPT !.pc = "returned", !.result = envelope, !.req = NoReq]

\* Caught that sends the failed backend request a second time.
Caught_CallAgain(s, where, message) ==
  IF where = "backend" /\ Len(s.trace) < 6
    THEN [ Log(Log(s, Ev("throw", where, s.ctx, NONE)),
               Ev("call", s.req.req, s.ctx, s.resolved)) EXCEPT !.pc = "await" ]
    ELSE Return(Log(s, Ev("throw", where, s.ctx, NONE)), Catch(s.tool, message))

\* A throw inside the handler's outer try, and its catch.
Caught(s, where, message) ==
  Return(Log(s, Ev("throw", where, s.ctx, NONE)), Catch(s.tool, message))

\* Call through a client kept in one place for all invocations: the client that
\* was constructed last.
Call_LatestClient(s, request, ctxs) ==
  [ Log(s, Ev("call", request.req, s.ctx, SubjectOf(Cardinality(ctxs), ctxs)))
      EXCEPT !.pc = "await", !.req = request ]

\* `await <api>.<req>(...)` through the handler's own `auth`.
Call(s, request, ctxs) ==
  [ Log(s, Ev("call", request.req, s.ctx, SubjectOf(s.ctx, ctxs)))
      EXCEPT !.pc = "await", !.req = request ]

OneText(label) == Success(<< TextItem(<<label>>) >>)

\* ---------------------------------------------------------- backend answers
Out(o, m, t) == [ok |-> o, n |-> m, tag |-> t]

PageCap == 500

Min(a, b) == IF a <= b THEN a ELSE b

\* PageRequest that forgets the users already collected.
PageRequest_Whole(s) == Min(s.cap, PageCap)

\* users.list of list_users: maxResults: Math.min(maxResults - allUsers.length, 500)
PageRequest(s) == Min(s.cap - s.n, PageCap)

\* The handlers whose post-processing walks a tree recursively.
ExtractorTools == {"get_email", "get_email_attachment", "get_slide"}

\* What the backend can answer to the pending request of s.
Outcomes(s) ==
  {Out(FALSE, 0, "error")} \cup
  ( CASE s.tool = "search_emails" /\ s.req.req = "users.messages.list" ->
           {Out(TRUE, m, "list") : m \in 0..MaxMessages}
      [] s.tool = "get_email_attachment" /\ s.req.req = "users.messages.attachments.get" ->
           {Out(TRUE, 0, t) : t \in {"empty", "image", "text", "binary"}}
      [] s.tool = "get_file_content" /\ s.req.req = "files.get" ->
           {Out(TRUE, l, t) : l \in {0, 1}, t \in {"native", "readable", "binary"}}
      [] s.tool = "list_users" ->
           {Out(TRUE, m, t) : m \in 0..PageRequest(s),
                              t \in IF s.pages + 1 < MaxPages THEN {"token", "last"}
                                                             ELSE {"last"}}
      [] OTHER ->
           {Out(TRUE, 0, "data")} \cup
           (IF s.tool \in ExtractorTools /\ s.req = FirstRequest(s.tool)
              THEN {Out(TRUE, 0, "extractThrows")} ELSE {}) )

\* ---------------------------------------------------------------- handlers
\* search_emails after an answer: the list, then one messages.get per message.
search_emails(s, out, ctxs) ==
  IF s.req.req = "users.messages.list"
    THEN IF out.n = 0
           THEN Return(s, OneText("No messages found for query"))
           ELSE Call([s EXCEPT !.n = out.n, !.k = 0],
                     [api |-> "gmail", req |-> "users.messages.get"], ctxs)
    ELSE IF s.k + 1 < s.n
           THEN Call([s EXCEPT !.k = s.k + 1],
                     [api |-> "gmail", req |-> "users.messages.get"], ctxs)
           ELSE Return([s EXCEPT !.k = s.k + 1], OneText("Found results"))

\* get_email_attachment after an answer.
get_email_attachment(s, out, ctxs) ==
  IF s.req.req = "users.messages.get"
    THEN Call(s, [api |-> "gmail", req |-> "users.messages.attachments.get"], ctxs)
    ELSE CASE out.tag = "empty" ->
                Return(Log(s, Ev("fail", "empty", s.ctx, NONE)), EmptyAttachment)
           [] out.tag = "image" ->
                Return(s, Success(<< TextItem(<<"Attachment">>), DataItem("image") >>))
           [] out.tag = "text" ->
                Return(s, OneText("Attachment"))
           [] OTHER ->
                Return(s, Success(<< TextItem(<<"Attachment">>), DataItem("resource") >>))

\* get_file_content after a successful answer.
get_file_content(s, out, ctxs) ==
  IF s.req.req = "files.get"
    THEN CASE out.tag = "native" ->
                Call([s EXCEPT !.link = IF out.n = 1 THEN "https://docs.example/view" ELSE NONE],
                     [api |-> "drive", req |-> "files.export"], ctxs)
           [] out.tag = "readable" ->
                Call(s, [api |-> "drive", req |-> "files.get?alt=media"], ctxs)
           [] OTHER -> Return(s, OneText("[Binary file: name]"))
    ELSE Return(s, OneText("[content]"))

\* list_users whose loop looks at the token only.
list_users_IgnoreCap(s, out, ctxs) ==
  LET t == [s EXCEPT !.n = s.n + out.n, !.pages = s.pages + 1] IN
  IF out.tag = "token"
    THEN Call(t, [api |-> "admin", req |-> "users.list"], ctxs)
    ELSE IF t.n = 0 THEN Return(t, OneText("No users found."))
                    ELSE Return(t, OneText("Found users"))

\* list_users after a successful page.
list_users(s, out, ctxs) ==
  LET t == [s EXCEPT !.n = s.n + out.n, !.pages = s.pages + 1] IN
  IF out.tag = "token" /\ t.n < t.cap
    THEN Call(t, [api |-> "admin", req |-> "users.list"], ctxs)
    ELSE IF t.n = 0 THEN Return(t, OneText("No users found."))
                    ELSE Return(t, OneText("Found users"))

\* The handler of s.tool from the answer `out` to its next await or its return.
Continue(s, out, ctxs) ==
  IF ~out.ok
    THEN IF s.tool = "get_file_content" /\ s.req.req = "files.export"
           THEN Return(Log(s, Ev("throw", "export", s.ctx, NONE)),
                       ExportFailed(MsgBackend, s.link))
           ELSE Caught(s, "backend", MsgBackend)
  ELSE IF out.tag = "extractThrows"
    THEN Caught(s, "extractor", MsgExtractor)
  ELSE CASE s.tool = "search_emails"        -> search_emails(s, out, ctxs)
         [] s.tool = "get_email_attachment" -> get_email_attachment(s, out, ctxs)
         [] s.tool = "get_file_content"     -> get_file_content(s, out, ctxs)
         [] s.tool = "list_users"           -> list_users(s, out, ctxs)
         [] OTHER                           -> Return(s, OneText("result"))

\* -------------------------------------------------------------- utils.ts
\* A JavaScript string is a sequence of characters; `string | null` is a
\* record that says whether the string is there.
Null == [present |-> FALSE, chars |-> <<>>]

Str(cs) == [present |-> TRUE, chars |-> cs]

\* !x for x: string | null
FalsyStr(x) == ~x.present \/ x.chars = <<>>

B64Alphabet ==
  << "A","B","C","D","E","F","G","H","I","J","K","L","M","N","O","P",
     "Q","R","S","T","U","V","W","X","Y","Z","a","b","c","d","e","f",
     "g","h","i","j","k","l","m","n","o","p","q","r","s","t","u","v",
     "w","x","y","z","0","1","2","3","4","5","6","7","8","9","+","/" >>

\* data.replace(/-/g, "+").replace(/_/g, "/")
ReplaceUrlChars(data) ==
  [i \in 1..Len(data) |->
     IF data[i] = "-" THEN "+" ELSE IF data[i] = "_" THEN "/" ELSE data[i]]

\* The 6-bit value of a base64 character, -1 for any other character.
B64Value(c) ==
  IF \E v \in 1..64 : B64Alphabet[v] = c
    THEN (CHOOSE v \in 1..64 : B64Alphabet[v] = c) - 1
    ELSE -1

\* Buffer.from(s, "base64") reads up to the first "=" and skips every
\* character that is not of the alphabet; it never throws.
RECURSIVE B64Sextets(_)
B64Sextets(s) ==
  IF s = <<>> \/ Head(s) = "=" THEN <<>>
  ELSE IF B64Value(Head(s)) < 0 THEN B64Sextets(Tail(s))
  ELSE <<B64Value(Head(s))>> \o B64Sextets(Tail(s))

RECURSIVE B64Bytes(_)
B64Bytes(x) ==
  IF Len(x) <= 1 THEN <<>>
  ELSE LET b1 == x[1] * 4 + (x[2] \div 16) IN
       IF Len(x) = 2 THEN <<b1>>
       ELSE LET b2 == (x[2] % 16) * 16 + (x[3] \div 4) IN
            IF Len(x) = 3 THEN <<b1, b2>>
            ELSE <<b1, b2, (x[3] % 4) * 64 + x[4]>> \o B64Bytes(SubSeq(x, 5, Len(x)))

ReplacementChar == 65533

\* buffer.toString("utf-8") on one- and two-byte sequences; a byte that starts
\* no such sequence becomes U+FFFD.
RECURSIVE Utf8ToString(_)
Utf8ToString(b) ==
  IF b = <<>> THEN <<>>
  ELSE IF b[1] < 128 THEN <<b[1]>> \o Utf8ToString(Tail(b))
  ELSE IF b[1] >= 194 /\ b[1] <= 223 /\ Len(b) >= 2 /\ b[2] >= 128 /\ b[2] <= 191
    THEN <<(b[1] - 192) * 64 + (b[2] - 128)>> \o Utf8ToString(SubSeq(b, 3, Len(b)))
  ELSE <<ReplacementChar>> \o Utf8ToString(Tail(b))

\* decodeBase64Url without the two replace calls: the standard alphabet only.
decodeBase64Url_Standard(data) == Utf8ToString(B64Bytes(B64Sextets(data)))

decodeBase64Url(data) == Utf8ToString(B64Bytes(B64Sextets(ReplaceUrlChars(data))))

\* ParsedEmail before the walk.
EmptyParsed == [textBody |-> Null, htmlBody |-> Null, attachments |-> <<>>]

\* recordBody without the "not recorded yet" tests: the last leaf wins.
recordBody_LastWins(mimeType, decoded, result) ==
  IF mimeType = "text/plain" THEN [result EXCEPT !.textBody = Str(decoded)]
  ELSE IF mimeType = "text/html" THEN [result EXCEPT !.htmlBody = Str(decoded)]
  ELSE result

\* The leaf branch of walkParts, for a part with body data.
recordBody(mimeType, decoded, result) ==
  IF mimeType = "text/plain" /\ FalsyStr(result.textBody)
    THEN [result EXCEPT !.textBody = Str(decoded)]
  ELSE IF mimeType = "text/html" /\ FalsyStr(result.htmlBody)
    THEN [result EXCEPT !.htmlBody = Str(decoded)]
  ELSE result

RECURSIVE walkParts(_, _), walkSubParts(_, _, _)

\* walkParts without the return after the push: a node with a filename is
\* recorded and its sub-parts are walked as well.
walkParts_Descend(part, result) ==
  LET mimeType == IF Falsy(part.mimeType) THEN "" ELSE part.mimeType
      pushed == [result EXCEPT !.attachments =
                   Append(@, [filename |-> part.filename, mimeType |-> mimeType,
                              size |-> part.size, attachmentId |-> part.attachmentId])]
  IN IF ~Falsy(part.filename)
       THEN IF Len(part.parts) > 0 THEN walkSubParts(part.parts, 1, pushed) ELSE pushed
     ELSE IF Len(part.parts) > 0
       THEN walkSubParts(part.parts, 1, result)
     ELSE IF part.data # <<>>
       THEN recordBody(mimeType, decodeBase64Url(part.data), result)
     ELSE result

\* walkParts with `result` threaded through; walkSubParts is its for loop,
\* from the k-th sub-part on.
walkParts(part, result) ==
  LET mimeType == IF Falsy(part.mimeType) THEN "" ELSE part.mimeType IN
  IF ~Falsy(part.filename)
    THEN [result EXCEPT !.attachments =
            Append(@, [filename |-> part.filename, mimeType |-> mimeType,
                       size |-> part.size, attachmentId |-> part.attachmentId])]
  ELSE IF Len(part.parts) > 0
    THEN walkSubParts(part.parts, 1, result)
  ELSE IF part.data # <<>>
    THEN recordBody(mimeType, decodeBase64Url(part.data), result)
  ELSE result

walkSubParts(parts, k, result) ==
  IF k > Len(parts) THEN result
  ELSE walkSubParts(parts, k + 1, walkParts(parts[k], result))

extractEmailBody(payload) == walkParts(payload, EmptyParsed)

\* ---------------------------------------------------------------- stripHtml
\* An HTML text is a sequence of units: a character, a whole tag or a whole
\* entity. Each replace of stripHtml is one pass over the units.
Whitespace == {" ", "\n"}

TagUnits == {"<br>", "</p>", "<li>", "<b>", "<script>", "</script>", "<style>", "</style>"}

FirstIndex(s, from, u) ==
  LET P == {j \in from..Len(s) : s[j] = u} IN
  IF P = {} THEN 0 ELSE CHOOSE j \in P : \A k \in P : j <= k

\* .replace(/<open[\s\S]*?<\/close>/gi, ""): every block from an opening tag to
\* the nearest closing tag after it.
RECURSIVE RemoveBlocks(_, _, _)
RemoveBlocks(s, open, close) ==
  LET a == FirstIndex(s, 1, open) IN
  IF a = 0 THEN s
  ELSE LET b == FirstIndex(s, a + 1, close) IN
       IF b = 0 THEN s
       ELSE SubSeq(s, 1, a - 1) \o RemoveBlocks(SubSeq(s, b + 1, Len(s)), open, close)

\* .replace(/.../g, replacement) for a pattern that matches single units.
RECURSIVE ReplaceUnits(_, _, _)
ReplaceUnits(s, units, by) ==
  IF s = <<>> THEN <<>>
  ELSE (IF Head(s) \in units THEN by ELSE <<Head(s)>>) \o ReplaceUnits(Tail(s), units, by)

\* .replace(/\n{3,}/g, "\n\n")
RECURSIVE CollapseNewlines(_)
CollapseNewlines(s) ==
  IF Len(s) >= 3 /\ s[1] = "\n" /\ s[2] = "\n" /\ s[3] = "\n"
    THEN CollapseNewlines(Tail(s))
  ELSE IF s = <<>> THEN <<>>
  ELSE <<Head(s)>> \o CollapseNewlines(Tail(s))

\* .trim()
RECURSIVE TrimStart(_)
TrimStart(s) == IF s # <<>> /\ Head(s) \in Whitespace THEN TrimStart(Tail(s)) ELSE s

RECURSIVE TrimEnd(_)
TrimEnd(s) ==
  IF s # <<>> /\ s[Len(s)] \in Whitespace THEN TrimEnd(SubSeq(s, 1, Len(s) - 1)) ELSE s

Trim(s) == TrimEnd(TrimStart(s))

stripHtml(html) ==
  LET s1 == RemoveBlocks(html, "<script>", "</script>")
      s2 == RemoveBlocks(s1, "<style>", "</style>")
      s3 == ReplaceUnits(s2, {"<br>"}, <<"\n">>)
      s4 == ReplaceUnits(s3, {"</p>"}, <<"\n">>)
      s5 == ReplaceUnits(s4, {"<li>"}, <<"-", " ">>)
      s6 == ReplaceUnits(s5, TagUnits, <<>>)
      s7 == ReplaceUnits(s6, {"&amp;"}, <<"&">>)
      s8 == ReplaceUnits(s7, {"&lt;"}, <<"<">>)
      s9 == ReplaceUnits(s8, {"&gt;"}, <<">">>)
      s10 == ReplaceUnits(s9, {"&quot;"}, <<"\"">>)
      s11 == ReplaceUnits(s10, {"&#39;"}, <<"'">>)
      s12 == ReplaceUnits(s11, {"&nbsp;"}, <<" ">>)
  IN Trim(CollapseNewlines(s12))

NoReadableBody == <<"(No readable body content)">>

\* getReadableBody that returns the HTML body as it is.
getReadableBody_RawHtml(parsed) ==
  IF ~FalsyStr(parsed.textBody) THEN parsed.textBody.chars
  ELSE IF ~FalsyStr(parsed.htmlBody) THEN parsed.htmlBody.chars
  ELSE NoReadableBody

getReadableBody(parsed) ==
  IF ~FalsyStr(parsed.textBody) THEN parsed.textBody.chars
  ELSE IF ~FalsyStr(parsed.htmlBody) THEN stripHtml(parsed.htmlBody.chars)
  ELSE NoReadableBody

\* ----------------------------------------------------------------- truncate
\* maxLength.toLocaleString() in the en-US locale: groups of three digits.
DigitChars == <<"0", "1", "2", "3", "4", "5", "6", "7", "8", "9">>

RECURSIVE toLocaleString(_)
toLocaleString(m) ==
  IF m < 10 THEN <<DigitChars[m + 1]>>
  ELSE IF m < 1000 THEN toLocaleString(m \div 10) \o <<DigitChars[(m % 10) + 1]>>
  ELSE toLocaleString(m \div 1000) \o <<",">>
         \o <<DigitChars[((m \div 100) % 10) + 1], DigitChars[((m \div 10) % 10) + 1],
              DigitChars[(m % 10) + 1]>>

\* `\n\n[... truncated at ${maxLength.toLocaleString()} characters]`
TruncationMarker(maxLength) ==
  <<"\n", "\n", "[", ".", ".", ".", " ", "t", "r", "u", "n", "c", "a", "t", "e", "d", " ",
    "a", "t", " ">> \o toLocaleString(maxLength)
    \o <<" ", "c", "h", "a", "r", "a", "c", "t", "e", "r", "s", "]">>

\* truncate with < for <=.
truncate_Strict(text, maxLength) ==
  IF Len(text) < maxLength THEN text
  ELSE SubSeq(text, 1, maxLength) \o TruncationMarker(maxLength)

\* text.slice(0, maxLength) for 0 <= maxLength < text.length
truncate(text, maxLength) ==
  IF Len(text) <= maxLength THEN text
  ELSE SubSeq(text, 1, maxLength) \o TruncationMarker(maxLength)

\* ------------------------------------------------- MessagePart trees (input)
Part(m, f, d, ps) ==
  [ mimeType |-> m, filename |-> f, data |-> d, parts |-> ps,
    size |-> Len(d), attachmentId |-> IF Falsy(f) THEN NONE ELSE "att-1" ]

\* Payloads: "YQ" is the letter a, "Yg" the letter b; "=" is padding and
\* nothing else, it decodes to no byte.
DataA == <<"Y", "Q">>

DataB == <<"Y", "g">>

DataPad == <<"=">>

LeafParts ==
  { Part("text/plain", "", d, <<>>) : d \in {<<>>, DataPad, DataA, DataB} } \cup
  { Part("text/html", "", d, <<>>) : d \in {DataA, DataB} } \cup
  { Part("text/plain", "note.txt", DataA, <<>>) }

SeqsUpTo(S, n) == UNION { [1..m -> S] : m \in 1..n }

\* A container, a container that carries a body of its own, and a node with a
\* filename that has sub-parts.
InnerParts ==
  { Part(k[1], k[2], k[3], ps) :
      k \in { <<"multipart/alternative", "", <<>>>>,
              <<"text/plain", "", DataB>>,
              <<"message/rfc822", "fwd.eml", <<>>>> },
      ps \in SeqsUpTo(LeafParts, MaxParts) }

RootParts ==
  LeafParts \cup InnerParts \cup
  { Part("multipart/mixed", "", <<>>, ps) :
      ps \in SeqsUpTo(LeafParts \cup InnerParts, MaxParts) }

MailOff == [pc |-> "off", payload |-> Part("", "", <<>>, <<>>), parsed |-> EmptyParsed]

BodyOff == [pc |-> "off", parsed |-> EmptyParsed, body |-> <<>>]

TruncateOff == [pc |-> "off", text |-> <<>>, limit |-> 0, once |-> <<>>, twice |-> <<>>]

\* No helper function is being applied on its own.
FnOff == [pc |-> "off"]

MailInit ==
  /\ mail \in { [pc |-> "fetched", payload |-> t, parsed |-> EmptyParsed] : t \in RootParts }
  /\ env = [GW_USER_EMAIL |-> NONE, keyPath |-> NONE, keyFile |-> "missing"]
  /\ cachedKey = NONE
  /\ keyReads = 0
  /\ contexts = {}
  /\ inv = [i \in Invs |-> Idle]
  /\ rb = BodyOff
  /\ tr = TruncateOff
  /\ fn = FnOff

\* const parsed = extractEmailBody(msg.payload)
Extract ==
  /\ mail.pc = "fetched"
  /\ mail' = [mail EXCEPT !.pc = "parsed", !.parsed = extractEmailBody(mail.payload)]
  /\ UNCHANGED <<hvars, rb, tr, fn>>

MailNext == Extract

SpecMail == MailInit /\ [][MailNext]_vars

\* ------------------------------------------------ getReadableBody on its own
HtmlUnits == {"x", " ", "\n", "<br>", "</p>", "<li>", "<b>", "<script>", "</script>", "&amp;"}

SeqsFromZero(S, n) == UNION { [1..m -> S] : m \in 0..n }

TextBodies == {Null, Str(<<>>), Str(<<"p">>), Str(<<"<b>", "p">>)}

HtmlBodies == {Null} \cup {Str(h) : h \in SeqsFromZero(HtmlUnits, MaxHtmlLen)}

BodyInit ==
  /\ rb \in { [pc |-> "parsed", parsed |-> [textBody |-> t, htmlBody |-> h, attachments |-> <<>>],
               body |-> <<>>] : t \in TextBodies, h \in HtmlBodies }
  /\ env = [GW_USER_EMAIL |-> NONE, keyPath |-> NONE, keyFile |-> "missing"]
  /\ cachedKey = NONE
  /\ keyReads = 0
  /\ contexts = {}
  /\ inv = [i \in Invs |-> Idle]
  /\ mail = MailOff
  /\ tr = TruncateOff
  /\ fn = FnOff

\* const body = getReadableBody(parsed)
Readable ==
  /\ rb.pc = "parsed"
  /\ rb' = [rb EXCEPT !.pc = "read", !.body = getReadableBody(rb.parsed)]
  /\ UNCHANGED <<hvars, mail, tr, fn>>

BodyNext == Readable

SpecBody == BodyInit /\ [][BodyNext]_vars

\* ------------------------------------------------------- truncate on its own
TextChars == {"a", "b"}

TruncateInit ==
  /\ tr \in { [pc |-> "input", text |-> t, limit |-> l, once |-> <<>>, twice |-> <<>>] :
               t \in SeqsFromZero(TextChars, MaxTextLen), l \in 0..MaxLimit }
  /\ env = [GW_USER_EMAIL |-> NONE, keyPath |-> NONE, keyFile |-> "missing"]
  /\ cachedKey = NONE
  /\ keyReads = 0
  /\ contexts = {}
  /\ inv = [i \in Invs |-> Idle]
  /\ mail = MailOff
  /\ rb = BodyOff
  /\ fn = FnOff

\* truncate(text, limit)
TruncateOnce ==
  /\ tr.pc = "input"
  /\ tr' = [tr EXCEPT !.pc = "once", !.once = truncate(tr.text, tr.limit)]
  /\ UNCHANGED <<hvars, mail, rb, fn>>

\* truncate(truncate(text, limit), limit)
TruncateTwice ==
  /\ tr.pc = "once"
  /\ tr' = [tr EXCEPT !.pc = "twice", !.twice = truncate(tr.once, tr.limit)]
  /\ UNCHANGED <<hvars, mail, rb, fn>>

TruncateNext == TruncateOnce \/ TruncateTwice

SpecTruncate == TruncateInit /\ [][TruncateNext]_vars

\* ------------------------------------------------------------------ actions
EnvConfigs ==
  { [GW_USER_EMAIL |-> g, keyPath |-> k[1], keyFile |-> k[2]] :
      g \in {NONE, DefaultEmail},
      k \in { <<NONE, "missing">>, <<"/keys/sa.json", "missing">>,
              <<"/keys/sa.json", "malformed">>, <<"/keys/sa.json", "sa-key">> } }

Init ==
  /\ env \in EnvConfigs
  /\ cachedKey = NONE
  /\ keyReads = 0
  /\ contexts = {}
  /\ inv = [i \in Invs |-> Idle]
  /\ mail = MailOff
  /\ rb = BodyOff
  /\ tr = TruncateOff
  /\ fn = FnOff

\* The dispatch shell validates the parameters against the declared schema
\* before it enters the handler: a required userEmail that is absent never
\* reaches the handler. The shell answers with a protocol fault or with its own
\* validation envelope.
ShellReject(i) ==
  /\ inv[i].pc = "idle"
  /\ \E tool \in Tools \ OptionalEmailTools, fault \in BOOLEAN :
       inv' = [inv EXCEPT ![i] =
                 [Idle EXCEPT !.pc = "rejected", !.tool = tool,
                    !.result = IF fault THEN NoEnvelope
                               ELSE [content |-> << TextItem(<<"Invalid arguments for tool">>) >>,
                                     isError |-> TRUE]]]
  /\ UNCHANGED <<env, cachedKey, keyReads, contexts, mail, rb, tr, fn>>

\* Enter that sends the first request before it looks at the identity.
Enter_CallFirst(s0, id, a, ctxs) ==
  LET c == Log(s0, Ev("call", FirstRequest(s0.tool).req, 0, NONE)) IN
  IF ~id.ok THEN Caught(c, "resolve", id.error)
  ELSE LET s1 == Log([c EXCEPT !.resolved = id.value], Ev("resolve", id.value, 0, NONE)) IN
       IF ~a.ok THEN Caught(s1, "auth", a.error)
       ELSE [Log([s1 EXCEPT !.ctx = a.ctx.id], Ev("auth", "JWT", a.ctx.id, a.ctx.subject))
               EXCEPT !.pc = "await", !.req = FirstRequest(s0.tool)]

\* The synchronous head of every handler, given the outcome `id` of its
\* identity expression and the outcome `a` of createAuthClient (evaluated only
\* when the identity is there): resolve, construct the client, send the first
\* request; a throw of either goes to the outer catch.
Enter(s0, id, a, ctxs) ==
  IF ~id.ok THEN Caught(s0, "resolve", id.error)
  ELSE LET s1 == Log([s0 EXCEPT !.resolved = id.value], Ev("resolve", id.value, 0, NONE)) IN
       IF ~a.ok THEN Caught(s1, "auth", a.error)
       ELSE Call(Log([s1 EXCEPT !.ctx = a.ctx.id], Ev("auth", "JWT", a.ctx.id, a.ctx.subject)),
                 FirstRequest(s0.tool), ctxs)

\* A handler from its entry to its first await (or its return).
Invoke(i) ==
  /\ inv[i].pc = "idle"
  /\ \E tool \in Tools, email \in Emails \cup {NONE} :
     \E cap \in IF tool = "list_users" THEN 1..MaxUsers ELSE {0} :
       /\ tool \in OptionalEmailTools \/ email # NONE
       /\ LET s0 == [Idle EXCEPT !.tool = tool, !.userEmail = email, !.cap = cap]
              id == HandlerIdentity(tool, email, env)
              a  == createAuthClient(id.value, cachedKey, env, contexts)
          IN /\ cachedKey' = IF id.ok THEN a.cache ELSE cachedKey
             /\ keyReads' = keyReads + (IF id.ok /\ a.read THEN 1 ELSE 0)
             /\ contexts' = IF id.ok /\ a.ok THEN contexts \cup {a.ctx} ELSE contexts
             /\ inv' = [inv EXCEPT ![i] = Enter(s0, id, a, contexts')]
  /\ UNCHANGED <<env, mail, rb, tr, fn>>

\* One backend answer, and the handler up to its next await or its return.
Respond(i) ==
  /\ inv[i].pc = "await"
  /\ \E out \in Outcomes(inv[i]) :
       inv' = [inv EXCEPT ![i] =
                 [Continue(inv[i], out, contexts) EXCEPT !.answers = Append(@, out)]]
  /\ UNCHANGED <<env, cachedKey, keyReads, contexts, mail, rb, tr, fn>>

Next == \E i \in Invs : ShellReject(i) \/ Invoke(i) \/ Respond(i)

Spec == Init /\ [][Next]_vars

\* =================================================================== claims
EventsOf(s, kind) == {j \in 1..Len(s.trace) : s.trace[j].ev = kind}

Threw(s, where) ==
  \E j \in 1..Len(s.trace) : s.trace[j].ev = "throw" /\ s.trace[j].what = where

\* A step of the handler failed: something threw, or the attachment was empty.
Failed(s) == EventsOf(s, "throw") \cup EventsOf(s, "fail") # {}

Entered(s) == s.pc \in {"await", "returned"}

IsErrorEnvelope(e) ==
  /\ e.isError
  /\ Len(e.content) = 1
  /\ e.content[1].type = "text"

ErrorPhrases == {ErrorPhrase(t) : t \in Tools}

\* C1: whenever identity resolution, auth-client construction, a backend call
\* or an extractor fails in a handler, the handler has returned (it is not left
\* waiting and nothing escapes it) an envelope with exactly one text item and
\* isError true.
C1_FailureIsOneTextError ==
  \A i \in Invs :
    Failed(inv[i]) => inv[i].pc = "returned" /\ IsErrorEnvelope(inv[i].result)

\* C1 witness: one invocation failed in its extractor, the other when its
\* identity was resolved.
C1_Witness ==
  \E i, j \in Invs :
    /\ Threw(inv[i], "extractor") /\ inv[i].pc = "returned"
    /\ Threw(inv[j], "resolve") /\ inv[j].pc = "returned"

\* C2 as stated: every envelope a handler returns with isError true has a text
\* that begins with an "Error <verb>-ing <noun>: " phrase followed by the
\* message, the export failure of get_file_content and the empty attachment of
\* get_email_attachment included.
C2_Original ==
  \A i \in Invs :
    (inv[i].pc = "returned" /\ inv[i].result.isError) =>
      LET text == inv[i].result.content[1].text IN
      Len(text) >= 2 /\ text[1] \in ErrorPhrases

\* C2 amended: an envelope returned by a handler's outer catch begins with that
\* handler's "Error <verb>-ing <noun>: " phrase followed by the message; the
\* only other isError envelopes are the export failure of get_file_content and
\* the empty attachment of get_email_attachment, which carry their own texts.
C2_OuterCatchPhrase ==
  \A i \in Invs :
    (inv[i].pc = "returned" /\ inv[i].result.isError) =>
      LET s == inv[i]
          text == s.result.content[1].text
          last == s.trace[Len(s.trace)]
      IN \/ /\ last.ev = "throw" /\ last.what \in {"resolve", "auth", "backend", "extractor"}
            /\ Len(text) >= 2
            /\ text[1] = ErrorPhrase(s.tool)
            /\ text[1] \in {"Error searching emails: ", "Error getting email: ",
                            "Error getting attachment: ", "Error listing labels: ",
                            "Error searching Drive: ", "Error reading file: ",
                            "Error getting file metadata: ", "Error getting spreadsheet: ",
                            "Error reading sheet range: ", "Error reading sheet ranges: ",
                            "Error getting document: ", "Error getting document structure: ",
                            "Error listing calendars: ", "Error searching events: ",
                            "Error getting event: ", "Error querying free/busy: ",
                            "Error searching presentations: ", "Error getting presentation: ",
                            "Error getting slide: ", "Error listing users: "}
            /\ text[2] \in {MsgNoDefaultEmail, MsgNoKeyPath, MsgReadFailed, MsgParseFailed,
                            MsgBackend, MsgExtractor}
         \/ /\ s.tool = "get_file_content" /\ last.ev = "throw" /\ last.what = "export"
            /\ text[1] = "[label: name]" /\ text[2] = "Failed to export: "
         \/ /\ s.tool = "get_email_attachment" /\ last.ev = "fail" /\ last.what = "empty"
            /\ text = <<"Attachment data is empty.">>

\* C2 witness: get_file_content failed on its metadata request (outer catch)
\* while another get_file_content failed on its export (inner catch).
C2_Witness ==
  \E i, j \in Invs :
    /\ inv[i].tool = "get_file_content" /\ Threw(inv[i], "backend")
    /\ inv[j].tool = "get_file_content" /\ Threw(inv[j], "export")

\* C3 as stated: every operation of the catalog, invoked without userEmail
\* while GW_USER_EMAIL is not configured, ends with an error envelope (isError
\* true, one text item) whose text names the missing GW_USER_EMAIL setting.
C3_Original ==
  \A i \in Invs :
    ( /\ inv[i].pc \in {"returned", "rejected"}
      /\ inv[i].userEmail = NONE
      /\ Falsy(env.GW_USER_EMAIL) ) =>
        /\ IsErrorEnvelope(inv[i].result)
        /\ \E j \in 1..Len(inv[i].result.content[1].text) :
             inv[i].result.content[1].text[j] = MsgNoDefaultEmail

C5_ResolveBeforeCall ==
  \A i \in Invs :
    LET s == inv[i] IN
    /\ Cardinality(EventsOf(s, "resolve")) <= 1
    /\ \A j \in EventsOf(s, "call") :
         Cardinality({r \in EventsOf(s, "resolve") : r < j}) = 1
    /\ (Threw(s, "resolve") \/ Threw(s, "auth")) => EventsOf(s, "call") = {}

\* C5 witness: one invocation is at its second backend call, another failed
\* when its identity was resolved.
C5_Witness ==
  \E i, j \in Invs :
    /\ Cardinality(EventsOf(inv[i], "call")) >= 2
    /\ Threw(inv[j], "resolve")

\* C6: each invocation that got a client has one of its own, and every backend
\* call of an invocation goes through that client, whose subject is the
\* identity the invocation resolved.
C6_OwnContextPerInvocation ==
  /\ \A i, j \in Invs :
       (i # j /\ inv[i].ctx # 0 /\ inv[j].ctx # 0) => inv[i].ctx # inv[j].ctx
  /\ \A i \in Invs :
       \A j \in EventsOf(inv[i], "call") :
         /\ inv[i].trace[j].ctx = inv[i].ctx
         /\ inv[i].ctx # 0
         /\ inv[i].trace[j].subject = inv[i].resolved
         /\ SubjectOf(inv[i].ctx, contexts) = inv[i].resolved

\* C6 witness: two invocations for different identities are both waiting for
\* a backend answer.
C6_Witness ==
  \E i, j \in Invs :
    /\ inv[i].pc = "await" /\ inv[j].pc = "await"
    /\ inv[i].resolved # inv[j].resolved

\* C7 as stated: every auth context carries the read-only scope of each of the
\* seven backing APIs, and the API of every backend call is covered by a scope
\* of the context the call is made with.
C7_Original ==
  /\ \A c \in contexts : \A api \in Apis : RequiredScope(api) \in c.scopes
  /\ \A i \in Invs :
       inv[i].pc = "await" =>
         \E c \in contexts : c.id = inv[i].ctx /\ RequiredScope(inv[i].req.api) \in c.scopes

\* The leaves of a tree that carry a payload, in depth-first left-to-right
\* order, without the nodes that have a filename and what is beneath them.
RECURSIVE BodyLeaves(_)
BodyLeavesOfAll(ps) ==
  LET F[k \in 0..Len(ps)] == IF k = 0 THEN <<>> ELSE F[k - 1] \o BodyLeaves(ps[k])
  IN F[Len(ps)]

BodyLeaves(part) ==
  IF ~Falsy(part.filename) THEN <<>>
  ELSE IF Len(part.parts) > 0 THEN BodyLeavesOfAll(part.parts)
  ELSE IF part.data # <<>> THEN <<part>>
  ELSE <<>>

FirstLeafOfType(leaves, m) ==
  LET P == {j \in 1..Len(leaves) : leaves[j].mimeType = m} IN
  IF P = {} THEN 0 ELSE CHOOSE j \in P : \A k \in P : j <= k

BodyIsFirstLeaf(body, leaves, m) ==
  LET f == FirstLeafOfType(leaves, m) IN
  IF f = 0 THEN ~body.present
  ELSE body.present /\ body.chars = decodeBase64Url(leaves[f].data)

NonEmptyLeaves(leaves) == SelectSeq(leaves, LAMBDA l : decodeBase64Url(l.data) # <<>>)

BodyIsFirstNonEmptyLeaf(body, leaves, m) ==
  LET f == FirstLeafOfType(NonEmptyLeaves(leaves), m) IN
  IF f # 0 THEN body = Str(decodeBase64Url(NonEmptyLeaves(leaves)[f].data))
  ELSE IF FirstLeafOfType(leaves, m) # 0 THEN body = Str(<<>>)
  ELSE body = Null

C9_Original ==
  rb.pc = "read" =>
    IF rb.parsed.textBody.present THEN rb.body = rb.parsed.textBody.chars
    ELSE IF rb.parsed.htmlBody.present THEN rb.body = stripHtml(rb.parsed.htmlBody.chars)
    ELSE rb.body = NoReadableBody

\* C9 amended: getReadableBody returns the plain-text body when it is a
\* non-empty string, else stripHtml of the HTML body when that is a non-empty
\* string, else the placeholder; a body that is null or empty counts as absent,
\* and the HTML body is never used when the plain-text body is non-empty.
C9_ReadableBody ==
  rb.pc = "read" =>
    IF rb.parsed.textBody.present /\ rb.parsed.textBody.chars # <<>>
      THEN rb.body = rb.parsed.textBody.chars
    ELSE IF rb.parsed.htmlBody.present /\ rb.parsed.htmlBody.chars # <<>>
      THEN /\ rb.body = stripHtml(rb.parsed.htmlBody.chars)
           /\ \A j \in 1..Len(rb.body) : rb.body[j] \notin TagUnits
    ELSE rb.body = <<"(No readable body content)">>

\* C9 witness: no plain-text body, an HTML body with a tag in it, and the
\* stripped text returned.
C9_Witness ==
  /\ rb.pc = "read"
  /\ rb.parsed.textBody = Null
  /\ rb.parsed.htmlBody = Str(<<"<b>", "x", "</p>">>)
  /\ rb.body = <<"x">>

\* C10: truncate(s, n) = s when length(s) <= n, and truncating the result of
\* truncate(s, n) again at n changes nothing when length(s) > n (limits n >= 0).
C10_TruncateIdempotent ==
  tr.pc = "twice" =>
    /\ Len(tr.text) <= tr.limit => tr.once = tr.text
    /\ Len(tr.text) > tr.limit => tr.twice = tr.once

\* C10 witness: a text of three characters has been truncated twice at the
\* limit 2, and the first result carries the notice.
C10_Witness ==
  /\ tr.pc = "twice"
  /\ tr.limit = 2
  /\ Len(tr.text) = 3
  /\ Len(tr.once) > 3

\* ------------------------------------------- shortening of handler outputs
\* A long text is kept as runs of equal characters:
\* <<Run("a", 99999), Run("b", 1)>> is 99999 times "a" followed by one "b".
Run(c, n) == [c |-> c, n |-> n]

\* text.length
RECURSIVE TextLength(_)
TextLength(t) == IF t = <<>> THEN 0 ELSE Head(t).n + TextLength(Tail(t))

\* text.slice(0, k) for k >= 0
RECURSIVE Slice(_, _)
Slice(t, k) ==
  IF t = <<>> \/ k <= 0 THEN <<>>
  ELSE IF Head(t).n <= k THEN <<Head(t)>> \o Slice(Tail(t), k - Head(t).n)
  ELSE <<Run(Head(t).c, k)>>

\* a + b
Concat(a, b) ==
  IF a = <<>> THEN b
  ELSE IF b = <<>> THEN a
  ELSE IF a[Len(a)].c = b[1].c
    THEN SubSeq(a, 1, Len(a) - 1) \o <<Run(b[1].c, a[Len(a)].n + b[1].n)>> \o Tail(b)
  ELSE a \o b

\* A template literal, character by character.
RECURSIVE Literal(_)
Literal(cs) == IF cs = <<>> THEN <<>> ELSE Concat(<<Run(Head(cs), 1)>>, Literal(Tail(cs)))

\* The default of truncate's maxLength.
DefaultMaxLength == 50000

\* const maxLen = 100000, and the second argument of truncate in drive.ts.
maxLen == 100000

\* truncate of utils.ts on a long text.
truncateText(text, maxLength) ==
  IF TextLength(text) <= maxLength THEN text
  ELSE Concat(Slice(text, maxLength), Literal(TruncationMarker(maxLength)))

\* The handlers' own shortening, without the notice.
ShortenInline_Silent(text) ==
  IF TextLength(text) > maxLen THEN Slice(text, maxLen) ELSE text

\* if (text.length > maxLen) text = text.slice(0, maxLen) + `\n\n[... truncated at ...]`
ShortenInline(text) ==
  IF TextLength(text) > maxLen
    THEN Concat(Slice(text, maxLen), Literal(TruncationMarker(maxLen)))
  ELSE text

\* The places that shorten with truncate(), each with the limit it passes.
TruncateSites == {"get_email", "get_email_attachment", "get_file_content:export",
                  "get_file_content:download"}

\* The places that shorten with their own code.
InlineSites == {"read_sheet_range", "batch_read_sheet_ranges", "get_document", "get_slide"}

LimitOf(site) ==
  IF site \in {"get_email", "get_email_attachment"} THEN DefaultMaxLength ELSE maxLen

\* What a truncate() site puts in front of the shortened text.
PrefixOf(site) ==
  CASE site = "get_email" -> "From: ... --- Body ---\n\n"
    [] site = "get_email_attachment" -> "Attachment: filename (mimeType, size)\n\n"
    [] site = "get_file_content:export" -> "[label: name]\n\n"
    [] site = "get_file_content:download" -> "[File: name (mimeType)]\n\n"
    [] OTHER -> ""

\* Texts whose lengths lie around a limit, with distinct characters at the cut.
TextsAround(limit) ==
  {<<>>, <<Run("b", 1)>>} \cup
  { Concat(<<Run("a", limit - d)>>, Literal(tail)) :
      d \in 0..MaxUnder, tail \in SeqsFromZero({"b", "c"}, MaxTail) }

ShortenInit ==
  /\ fn \in { [pc |-> "text", site |-> site, text |-> t, out |-> <<>>] :
               site \in TruncateSites \cup InlineSites, t \in TextsAround(maxLen) \cup TextsAround(DefaultMaxLength) }
  /\ env = [GW_USER_EMAIL |-> NONE, keyPath |-> NONE, keyFile |-> "missing"]
  /\ cachedKey = NONE
  /\ keyReads = 0
  /\ contexts = {}
  /\ inv = [i \in Invs |-> Idle]
  /\ mail = MailOff
  /\ rb = BodyOff
  /\ tr = TruncateOff

\* `prefix` + truncate(text, limit)
ShortenByTruncate ==
  /\ fn.pc = "text"
  /\ fn.site \in TruncateSites
  /\ fn' = [fn EXCEPT !.pc = "shortened",
                      !.out = <<PrefixOf(fn.site), truncateText(fn.text, LimitOf(fn.site))>>]
  /\ UNCHANGED <<hvars, mail, rb, tr>>

\* The whole text of the response, shortened in the handler.
ShortenInHandler ==
  /\ fn.pc = "text"
  /\ fn.site \in InlineSites
  /\ fn' = [fn EXCEPT !.pc = "shortened", !.out = <<"", ShortenInline(fn.text)>>]
  /\ UNCHANGED <<hvars, mail, rb, tr>>

ShortenNext == ShortenByTruncate \/ ShortenInHandler

SpecShorten == ShortenInit /\ [][ShortenNext]_vars

\* text.slice(k)
RECURSIVE SliceFrom(_, _)
SliceFrom(t, k) ==
  IF t = <<>> \/ k <= 0 THEN t
  ELSE IF Head(t).n <= k THEN SliceFrom(Tail(t), k - Head(t).n)
  ELSE <<Run(Head(t).c, Head(t).n - k)>> \o Tail(t)

\* The notice, with the limit written out.
NoticeNaming(limit) ==
  <<"\n", "\n", "[", ".", ".", ".", " ", "t", "r", "u", "n", "c", "a", "t", "e", "d", " ",
    "a", "t", " ">>
    \o (IF limit = 50000 THEN <<"5", "0", ",", "0", "0", "0">>
        ELSE <<"1", "0", "0", ",", "0", "0", "0">>)
    \o <<" ", "c", "h", "a", "r", "a", "c", "t", "e", "r", "s", "]">>

\* C11: where an operation shortens a text (mail body and text attachment at
\* 50,000 characters; drive export and download, sheet range, batch ranges,
\* document text and slide content at 100,000), the text at most `limit` long
\* is returned unchanged, and a longer one as exactly its first `limit`
\* characters followed by the truncation notice that names the limit.
C11_ShortenedWithMarker ==
  fn.pc = "shortened" =>
    LET limit == IF fn.site \in {"get_email", "get_email_attachment"} THEN 50000 ELSE 100000
        shown == fn.out[2]
    IN IF TextLength(fn.text) <= limit THEN shown = fn.text
       ELSE /\ Slice(shown, limit) = Slice(fn.text, limit)
            /\ TextLength(Slice(shown, limit)) = limit
            /\ SliceFrom(shown, limit) = Literal(NoticeNaming(limit))

\* C11 witness: read_sheet_range has shortened a text of 100,002 characters
\* whose 100,000th character is the last one kept.
C11_Witness ==
  /\ fn.pc = "shortened"
  /\ fn.site = "read_sheet_range"
  /\ fn.text = <<Run("a", 99999), Run("b", 1), Run("c", 2)>>
  /\ Slice(fn.out[2], 100000) = <<Run("a", 99999), Run("b", 1)>>
  /\ TextLength(fn.out[2]) > 100000

\* ------------------------------------------------- list_users, page by page
\* maxResults: z.number().min(1).max(500)
MinResults == 1

MaxResultsLimit == 500

\* The values of maxResults: the small ones and the ones at the schema's limit.
UserCaps == (MinResults..MaxUsers) \cup {MaxResultsLimit - 1, MaxResultsLimit}

\* How many users a page can carry when `asked` were asked for; the backend
\* may deliver one more than asked.
Delivered(asked) == {m \in {0, 1, asked - 1, asked, asked + 1} : m >= 0 /\ m <= asked + 1}

\* The answers of the directory backend to the pending users.list of s, with or
\* without nextPageToken.
UsersOutcomes(s) ==
  {Out(FALSE, 0, "error")} \cup
  {Out(TRUE, m, t) : m \in Delivered(PageRequest(s)), t \in {"token", "last"}}

\* The answers after which nothing remains to be fetched: a failure, a page
\* without a token, or a page that brings the collected users to maxResults.
FinalAnswers(s) ==
  {out \in UsersOutcomes(s) : ~out.ok \/ out.tag = "last" \/ s.n + out.n >= s.cap}

\* asked: maxResults of the pending (or last) users.list; over: some page held
\* more users than asked; token: the last page carried nextPageToken; further:
\* a page after the first was requested.
UsersStart ==
  [pc |-> "users", asked |-> 0, over |-> FALSE, answered |-> FALSE, token |-> FALSE,
   further |-> FALSE]

UsersInit ==
  /\ env \in {e \in EnvConfigs : e.keyFile = "sa-key"}
  /\ cachedKey = NONE
  /\ keyReads = 0
  /\ contexts = {}
  /\ inv = [i \in Invs |-> Idle]
  /\ mail = MailOff
  /\ rb = BodyOff
  /\ tr = TruncateOff
  /\ fn = UsersStart

\* The invocation without its log and its page counter.
Unlogged(s) == [s EXCEPT !.trace = <<>>, !.pages = 0]

\* list_users from its entry to its first users.list.
UsersInvoke ==
  /\ inv[1].pc = "idle"
  /\ \E cap \in UserCaps, email \in Emails :
       LET s0 == [Idle EXCEPT !.tool = "list_users", !.userEmail = email, !.cap = cap]
           id == HandlerIdentity("list_users", email, env)
           a  == createAuthClient(id.value, cachedKey, env, contexts)
           s1 == Enter(s0, id, a, contexts \cup {a.ctx})
       IN /\ cachedKey' = a.cache
          /\ keyReads' = keyReads + (IF a.read THEN 1 ELSE 0)
          /\ contexts' = contexts \cup {a.ctx}
          /\ inv' = [inv EXCEPT ![1] = Unlogged(s1)]
          /\ fn' = [fn EXCEPT !.asked = PageRequest(s1)]
  /\ UNCHANGED <<env, mail, rb, tr>>

\* One answer to users.list and the loop up to the next users.list or the return.
UsersAnswer(out) ==
  /\ inv[1].pc = "await"
  /\ LET t == Continue(inv[1], out, contexts) IN
       /\ inv' = [inv EXCEPT ![1] = Unlogged(t)]
       /\ fn' = [fn EXCEPT !.over = @ \/ (out.ok /\ out.n > fn.asked),
                           !.answered = TRUE,
                           !.token = out.ok /\ out.tag = "token",
                           !.further = @ \/ t.pc = "await",
                           !.asked = IF t.pc = "await" THEN PageRequest(t) ELSE @]
  /\ UNCHANGED <<env, cachedKey, keyReads, contexts, mail, rb, tr>>

UsersMore ==
  /\ fn.pc = "users"
  /\ \E out \in UsersOutcomes(inv[1]) \ FinalAnswers(inv[1]) : UsersAnswer(out)

UsersFinal ==
  /\ fn.pc = "users"
  /\ \E out \in FinalAnswers(inv[1]) : UsersAnswer(out)

UsersNext == UsersInvoke \/ UsersMore \/ UsersFinal

\* The backend answers every request, and at some time with a final answer.
SpecUsers == UsersInit /\ [][UsersNext]_vars /\ WF_vars(UsersFinal)

PagingRule ==
  fn.pc = "users" /\ fn.answered =>
    /\ inv[1].pc \in {"await", "returned"}
    /\ inv[1].pc = "await" <=> (fn.token /\ inv[1].n < inv[1].cap)

\* C13: list_users requests a further page only after an answer with a
\* continuation token and with fewer than maxResults users collected; once the
\* cap is reached or an answer carries no token it sends nothing more and
\* returns; with a backend that eventually gives such an answer, every
\* list_users that has sent a request returns.
C13_PagingTerminates ==
  /\ []PagingRule
  /\ [][inv[1].pc = "returned" => inv'[1] = inv[1]]_vars
  /\ (fn.pc = "users" /\ inv[1].pc = "await") ~> (inv[1].pc = "returned")

\* C13 witness: list_users has asked for a further page, then received a page
\* with a token that brought it to maxResults, and returned.
C13_Witness ==
  /\ fn.pc = "users"
  /\ fn.further
  /\ fn.token
  /\ inv[1].pc = "returned"
  /\ inv[1].cap = 2
  /\ inv[1].n = 2

\* ------------------------------------------------- docs: extractHeadings
IsDigit(c) == \E d \in 1..10 : DigitChars[d] = c

DigitValue(c) == (CHOOSE d \in 1..10 : DigitChars[d] = c) - 1

\* The longest prefix of s made of decimal digits.
RECURSIVE LeadingDigits(_)
LeadingDigits(s) ==
  IF s # <<>> /\ IsDigit(Head(s)) THEN <<Head(s)>> \o LeadingDigits(Tail(s)) ELSE <<>>

RECURSIVE DecimalValue(_)
DecimalValue(ds) ==
  IF ds = <<>> THEN 0
  ELSE 10 * DecimalValue(SubSeq(ds, 1, Len(ds) - 1)) + DigitValue(ds[Len(ds)])

NaN == [nan |-> TRUE, value |-> 0]

\* parseInt(s, 10): leading white space is skipped, a sign is taken, then the
\* longest run of digits is read and whatever follows is ignored; NaN without
\* a digit.
parseInt(s) ==
  LET t == TrimStart(s)
      signed == t # <<>> /\ Head(t) \in {"-", "+"}
      ds == LeadingDigits(IF signed THEN Tail(t) ELSE t)
  IN IF ds = <<>> THEN NaN
     ELSE [nan |-> FALSE,
           value |-> IF signed /\ Head(t) = "-" THEN 0 - DecimalValue(ds) ELSE DecimalValue(ds)]

HeadingPrefix == <<"H", "E", "A", "D", "I", "N", "G", "_">>

\* style.startsWith("HEADING_")
startsWith(s, prefix) == Len(s) >= Len(prefix) /\ SubSeq(s, 1, Len(prefix)) = prefix

\* style.replace("HEADING_", "") for a style that starts with it
WithoutPrefix(s, prefix) == SubSeq(s, Len(prefix) + 1, Len(s))

\* extractParagraphText: the text runs, "[image]" for an inline object and a
\* rule line for a horizontal rule, concatenated.
RECURSIVE extractParagraphText(_)
extractParagraphText(elements) ==
  IF elements = <<>> THEN <<>>
  ELSE (CASE Head(elements).kind = "textRun" -> Head(elements).content
          [] Head(elements).kind = "inlineObjectElement" ->
               <<"[", "i", "m", "a", "g", "e", "]">>
          [] Head(elements).kind = "horizontalRule" -> <<"\n", "-", "-", "-", "\n">>
          [] OTHER -> <<>>)
       \o extractParagraphText(Tail(elements))

\* HeadingOf that also pushes a heading whose text is empty.
HeadingOf_KeepsEmpty(element) ==
  IF element.kind # "paragraph" THEN <<>>
  ELSE IF FalsyStr(element.style) \/ ~startsWith(element.style.chars, HeadingPrefix) THEN <<>>
  ELSE LET level == parseInt(WithoutPrefix(element.style.chars, HeadingPrefix))
           text == Trim(extractParagraphText(element.elements))
       IN IF level.nan THEN <<>>
          ELSE << [level |-> level.value, text |-> text] >>

\* One turn of the loop of extractHeadings over body.content.
HeadingOf(element) ==
  IF element.kind # "paragraph" THEN <<>>
  ELSE IF FalsyStr(element.style) \/ ~startsWith(element.style.chars, HeadingPrefix) THEN <<>>
  ELSE LET level == parseInt(WithoutPrefix(element.style.chars, HeadingPrefix))
           text == Trim(extractParagraphText(element.elements))
       IN IF level.nan THEN <<>>
          ELSE IF text = <<>> THEN <<>>
          ELSE << [level |-> level.value, text |-> text] >>

RECURSIVE HeadingsOf(_)
HeadingsOf(content) ==
  IF content = <<>> THEN <<>> ELSE HeadingOf(Head(content)) \o HeadingsOf(Tail(content))

\* body: [present, content]; `if (!body?.content) return []`
extractHeadings(body) == IF ~body.present THEN <<>> ELSE HeadingsOf(body.content)

TextRun(cs) == [kind |-> "textRun", content |-> cs]

ParagraphTexts ==
  { <<>>, <<TextRun(<<" ">>)>>, <<TextRun(<<"T">>)>>,
    <<TextRun(<<" ", "T">>), TextRun(<<"\n">>)>>,
    <<[kind |-> "inlineObjectElement", content |-> <<>>]>> }

NamedStyles ==
  {Null, Str(<<"T", "I", "T", "L", "E">>)} \cup
  {Str(HeadingPrefix \o suffix) : suffix \in SeqsFromZero({"1", "2", "x"}, MaxSuffix)}

Paragraph(style, elements) ==
  [kind |-> "paragraph", style |-> style, elements |-> elements]

\* A table whose only cell holds a paragraph styled as a heading.
TableWithHeading ==
  [kind |-> "table", style |-> Str(HeadingPrefix \o <<"1">>),
   elements |-> <<TextRun(<<"T">>)>>]

StructuralElements ==
  {Paragraph(st, el) : st \in NamedStyles, el \in ParagraphTexts} \cup {TableWithHeading}

HeadingsInit ==
  /\ fn \in { [pc |-> "body", body |-> b, headings |-> <<>>] :
               b \in {[present |-> FALSE, content |-> <<>>]} \cup
                     {[present |-> TRUE, content |-> c] :
                        c \in SeqsFromZero(StructuralElements, MaxElements)} }
  /\ env = [GW_USER_EMAIL |-> NONE, keyPath |-> NONE, keyFile |-> "missing"]
  /\ cachedKey = NONE
  /\ keyReads = 0
  /\ contexts = {}
  /\ inv = [i \in Invs |-> Idle]
  /\ mail = MailOff
  /\ rb = BodyOff
  /\ tr = TruncateOff

\* const headings = extractHeadings(doc.body)
Headings ==
  /\ fn.pc = "body"
  /\ fn' = [fn EXCEPT !.pc = "headings", !.headings = extractHeadings(fn.body)]
  /\ UNCHANGED <<hvars, mail, rb, tr>>

HeadingsNext == Headings

SpecHeadings == HeadingsInit /\ [][HeadingsNext]_vars

\* The top-level paragraphs that the claim counts as headings: style
\* "HEADING_" followed by digits only, and text that is non-empty when trimmed.
IsNumericHeading(element) ==
  /\ element.kind = "paragraph"
  /\ element.style.present
  /\ startsWith(element.style.chars, HeadingPrefix)
  /\ Len(element.style.chars) > Len(HeadingPrefix)
  /\ \A j \in (Len(HeadingPrefix) + 1)..Len(element.style.chars) : IsDigit(element.style.chars[j])
  /\ Trim(extractParagraphText(element.elements)) # <<>>

ExpectedHeading(element) ==
  [level |-> DecimalValue(SubSeq(element.style.chars, Len(HeadingPrefix) + 1,
                                 Len(element.style.chars))),
   text |-> Trim(extractParagraphText(element.elements))]

IsLeadingNumberHeading(element) ==
  /\ element.kind = "paragraph"
  /\ element.style.present
  /\ startsWith(element.style.chars, HeadingPrefix)
  /\ Len(element.style.chars) > Len(HeadingPrefix)
  /\ IsDigit(element.style.chars[Len(HeadingPrefix) + 1])
  /\ Trim(extractParagraphText(element.elements)) # <<>>

LeadingNumberHeading(element) ==
  [level |-> DecimalValue(LeadingDigits(SubSeq(element.style.chars, Len(HeadingPrefix) + 1,
                                               Len(element.style.chars)))),
   text |-> Trim(extractParagraphText(element.elements))]

RECURSIVE Join(_, _)
Join(strings, sep) ==
  IF strings = <<>> THEN <<>>
  ELSE IF Len(strings) = 1 THEN strings[1]
  ELSE strings[1] \o sep \o Join(Tail(strings), sep)

\* String(n) for a non-negative integer
RECURSIVE NumberToString(_)
NumberToString(m) ==
  IF m < 10 THEN <<DigitChars[m + 1]>>
  ELSE NumberToString(m \div 10) \o <<DigitChars[(m % 10) + 1]>>

\* A cell of values[][]: null or undefined, a string, a number or a boolean.
NullCell == [type |-> "null", str |-> <<>>, num |-> 0, bool |-> FALSE]

StringCell(cs) == [type |-> "string", str |-> cs, num |-> 0, bool |-> FALSE]

NumberCell(m) == [type |-> "number", str |-> <<>>, num |-> m, bool |-> FALSE]

BooleanCell(b) == [type |-> "boolean", str |-> <<>>, num |-> 0, bool |-> b]

\* String(cell ?? "")
CellToString(cell) ==
  CASE cell.type = "null" -> <<>>
    [] cell.type = "string" -> cell.str
    [] cell.type = "number" -> NumberToString(cell.num)
    [] cell.type = "boolean" ->
         IF cell.bool THEN <<"t", "r", "u", "e">> ELSE <<"f", "a", "l", "s", "e">>

\* tsv that fills every row up to the widest one.
tsv_Padded(rows) ==
  LET width == CHOOSE w \in 0..MaxCols + 1 :
                 /\ \A r \in 1..Len(rows) : Len(rows[r]) <= w
                 /\ \E r \in 1..Len(rows) : Len(rows[r]) = w
  IN Join([r \in 1..Len(rows) |->
             Join([c \in 1..width |->
                     IF c <= Len(rows[r]) THEN CellToString(rows[r][c]) ELSE <<>>], <<"\t">>)],
          <<"\n">>)

\* rows.map((row) => row.map((cell) => String(cell ?? "")).join("\t")).join("\n")
tsv(rows) ==
  Join([r \in 1..Len(rows) |->
          Join([c \in 1..Len(rows[r]) |-> CellToString(rows[r][c])], <<"\t">>)],
       <<"\n">>)

Cells ==
  { NullCell, StringCell(<<>>), StringCell(<<"a">>), StringCell(<<"b", "\t", "c">>),
    StringCell(<<"x", "\n", "y">>), NumberCell(12), BooleanCell(TRUE) }

\* response.data.values with at least one row; a row may have no cell.
Grids == SeqsUpTo(SeqsFromZero(Cells, MaxCols), MaxRows)

RangeSites == {"read_sheet_range", "batch_read_sheet_ranges"}

RangeInit ==
  /\ fn \in { [pc |-> "values", site |-> site, rows |-> g, out |-> <<>>] :
               site \in RangeSites, g \in Grids }
  /\ env = [GW_USER_EMAIL |-> NONE, keyPath |-> NONE, keyFile |-> "missing"]
  /\ cachedKey = NONE
  /\ keyReads = 0
  /\ contexts = {}
  /\ inv = [i \in Invs |-> Idle]
  /\ mail = MailOff
  /\ rb = BodyOff
  /\ tr = TruncateOff

\* read_sheet_range: `Range: ...\nRows: n\n\n` + tsv
FormatRange ==
  /\ fn.pc = "values"
  /\ fn.site = "read_sheet_range"
  /\ fn' = [fn EXCEPT !.pc = "formatted",
                      !.out = <<"Range: range\nRows: ", NumberToString(Len(fn.rows)), "\n\n",
                                tsv(fn.rows)>>]
  /\ UNCHANGED <<hvars, mail, rb, tr>>

\* batch_read_sheet_ranges: `--- range (n rows) ---\n` + tsv, for one range
FormatBatchRange ==
  /\ fn.pc = "values"
  /\ fn.site = "batch_read_sheet_ranges"
  /\ fn' = [fn EXCEPT !.pc = "formatted",
                      !.out = <<"--- range (", NumberToString(Len(fn.rows)), " rows) ---\n",
                                tsv(fn.rows)>>]
  /\ UNCHANGED <<hvars, mail, rb, tr>>

RangeNext == FormatRange \/ FormatBatchRange

SpecRange == RangeInit /\ [][RangeNext]_vars

\* text.split(sep)
RECURSIVE Split(_, _)
Split(text, sep) ==
  LET k == FirstIndex(text, 1, sep) IN
  IF k = 0 THEN <<text>>
  ELSE <<SubSeq(text, 1, k - 1)>> \o Split(SubSeq(text, k + 1, Len(text)), sep)

Count(text, c) == Cardinality({j \in 1..Len(text) : text[j] = c})

\* The text of a row of the grid: its cells as strings, with tabs between them.
RowText(row) == Join([c \in 1..Len(row) |-> CellToString(row[c])], <<"\t">>)

\* C15 as stated: the grid is rendered as its rows joined by newlines, each row
\* its stringified cells joined by tabs without padding, so the output has one
\* line per row and the number of tabs in a line is the row's cell count minus
\* one.
C15_Original ==
  fn.pc = "formatted" =>
    LET lines == Split(fn.out[4], "\n") IN
    /\ Len(lines) = Len(fn.rows)
    /\ \A r \in 1..Len(fn.rows) :
         /\ lines[r] = RowText(fn.rows[r])
         /\ Count(lines[r], "\t") = Len(fn.rows[r]) - 1

SeparatorFree(row) ==
  \A c \in 1..Len(row) : Count(CellToString(row[c]), "\t") + Count(CellToString(row[c]), "\n") = 0

\* C15 amended: the grid is rendered as its rows joined by newlines, each row
\* its stringified cells (null or missing as the empty string) joined by tabs,
\* without padding; when no cell contains a tab or a newline the output has
\* one line per row, a row with at least one cell gives a line with cell count
\* minus one tabs that splits back into its cells, and a row without cells
\* gives an empty line.
C15_RowsAsTsv ==
  fn.pc = "formatted" =>
    /\ fn.out[4] = Join([r \in 1..Len(fn.rows) |-> RowText(fn.rows[r])], <<"\n">>)
    /\ (\A r \in 1..Len(fn.rows) : SeparatorFree(fn.rows[r])) =>
         LET lines == Split(fn.out[4], "\n") IN
         /\ Len(lines) = Len(fn.rows)
         /\ \A r \in 1..Len(fn.rows) :
              IF fn.rows[r] = <<>> THEN lines[r] = <<>>
              ELSE /\ Count(lines[r], "\t") = Len(fn.rows[r]) - 1
                   /\ Split(lines[r], "\t") =
                        [c \in 1..Len(fn.rows[r]) |-> CellToString(fn.rows[r][c])]

\* C15 witness: [["a", 12], ["a"]] read by read_sheet_range gives "a\t12\na".
C15_Witness ==
  /\ fn.pc = "formatted"
  /\ fn.site = "read_sheet_range"
  /\ fn.rows = << <<StringCell(<<"a">>), NumberCell(12)>>, <<StringCell(<<"a">>)>> >>
  /\ fn.out[4] = <<"a", "\t", "1", "2", "\n", "a">>

\* ------------------------------------------------------ slides: helpers
\* TextContent: textElements, each with the content of its text run.
NoText == [present |-> FALSE, runs |-> <<>>]

Text(runs) == [present |-> TRUE, runs |-> runs]

RECURSIVE Flatten(_)
Flatten(strings) == IF strings = <<>> THEN <<>> ELSE Head(strings) \o Flatten(Tail(strings))

\* extractTextFromTextContent: the runs joined by "" and trimmed.
extractTextFromTextContent(textContent) ==
  IF ~textContent.present THEN <<>> ELSE Trim(Flatten(textContent.runs))

\* A page element; at most one of shape, table, elementGroup and wordArt is
\* there. placeholder is the shape's placeholder type or NONE.
NoShape == [present |-> FALSE, placeholder |-> NONE, text |-> NoText]

NoTable == [present |-> FALSE, rows |-> <<>>]

NoGroup == [present |-> FALSE, children |-> <<>>]

Shape(placeholder, text) ==
  [shape |-> [present |-> TRUE, placeholder |-> placeholder, text |-> text],
   table |-> NoTable, elementGroup |-> NoGroup, wordArt |-> Null]

Table(rows) ==
  [shape |-> NoShape, table |-> [present |-> TRUE, rows |-> rows],
   elementGroup |-> NoGroup, wordArt |-> Null]

Group(children) ==
  [shape |-> NoShape, table |-> NoTable,
   elementGroup |-> [present |-> TRUE, children |-> children], wordArt |-> Null]

WordArt(renderedText) ==
  [shape |-> NoShape, table |-> NoTable, elementGroup |-> NoGroup, wordArt |-> Str(renderedText)]

\* extractTextFromTable: a row is the sequence of the texts of its cells.
extractTextFromTable(table) ==
  IF ~table.present THEN <<>>
  ELSE Join([r \in 1..Len(table.rows) |->
               Join([c \in 1..Len(table.rows[r]) |->
                       extractTextFromTextContent(table.rows[r][c])], <<"\t">>)],
            <<"\n">>)

\* The loop over the children of a group that pushes every result, empty or not.
RECURSIVE extractTextFromPageElement(_)
RECURSIVE ChildTexts_All(_)
ChildTexts_All(children) ==
  IF children = <<>> THEN <<>>
  ELSE <<extractTextFromPageElement(Head(children))>> \o ChildTexts_All(Tail(children))

\* for (const child of children) { const text = extract(child); if (text) parts.push(text) }
RECURSIVE ChildTexts(_)
ChildTexts(children) ==
  IF children = <<>> THEN <<>>
  ELSE LET text == extractTextFromPageElement(Head(children)) IN
       (IF text # <<>> THEN <<text>> ELSE <<>>) \o ChildTexts(Tail(children))

extractTextFromPageElement(element) ==
  LET shapeText == extractTextFromTextContent(element.shape.text)
      tableText == extractTextFromTable(element.table)
      parts == ChildTexts(element.elementGroup.children)
  IN IF element.shape.present /\ shapeText # <<>> THEN shapeText
     ELSE IF element.table.present /\ tableText # <<>>
       THEN <<"[", "T", "a", "b", "l", "e", "]", "\n">> \o tableText
     ELSE IF element.elementGroup.present /\ parts # <<>> THEN Join(parts, <<"\n">>)
     ELSE IF ~FalsyStr(element.wordArt) THEN element.wordArt.chars
     ELSE <<>>

\* extractSpeakerNotes that answers with the first BODY element, empty or not.
RECURSIVE extractSpeakerNotes_FirstBody(_)
extractSpeakerNotes_FirstBody(notesPage) ==
  IF ~notesPage.present \/ notesPage.pageElements = <<>> THEN <<>>
  ELSE LET el == Head(notesPage.pageElements) IN
       IF el.shape.present /\ el.shape.placeholder = "BODY"
         THEN extractTextFromTextContent(el.shape.text)
       ELSE extractSpeakerNotes_FirstBody(
              [notesPage EXCEPT !.pageElements = Tail(notesPage.pageElements)])

\* extractSpeakerNotes on slide.slideProperties?.notesPage
RECURSIVE extractSpeakerNotes(_)
extractSpeakerNotes(notesPage) ==
  IF ~notesPage.present \/ notesPage.pageElements = <<>> THEN <<>>
  ELSE LET el == Head(notesPage.pageElements)
           text == extractTextFromTextContent(el.shape.text)
       IN IF el.shape.present /\ el.shape.placeholder = "BODY" /\ text # <<>> THEN text
          ELSE extractSpeakerNotes(
                 [notesPage EXCEPT !.pageElements = Tail(notesPage.pageElements)])

\* a || b for strings
OrElse(a, b) == IF a # <<>> THEN a ELSE b

\* The loop of extractSlideSummary: the title and the subtitle after the
\* elements `els`, starting from `acc`.
RECURSIVE TitleAndSubtitle(_, _)
TitleAndSubtitle(els, acc) ==
  IF els = <<>> THEN acc
  ELSE LET el == Head(els)
           phType == IF el.shape.present THEN el.shape.placeholder ELSE NONE
           text == extractTextFromTextContent(el.shape.text)
       IN TitleAndSubtitle(Tail(els),
            IF phType \in {"TITLE", "CENTERED_TITLE"}
              THEN [acc EXCEPT !.title = OrElse(text, acc.title)]
            ELSE IF phType = "SUBTITLE"
              THEN [acc EXCEPT !.subtitle = OrElse(text, acc.subtitle)]
            ELSE acc)

\* extractSlideSummary without the test of the subtitle.
extractSlideSummary_AlwaysSubtitle(slide, index) ==
  LET ts == TitleAndSubtitle(slide.pageElements, [title |-> <<>>, subtitle |-> <<>>])
      hasNotes == Len(extractSpeakerNotes(slide.notesPage)) > 0
  IN <<"S", "l", "i", "d", "e", " ">> \o NumberToString(index + 1)
       \o <<" ", "(", "I", "D", ":", " ">> \o slide.objectId \o <<")">>
       \o (IF ts.title # <<>> THEN <<":", " ">> \o ts.title ELSE <<>>)
       \o <<" ", "-", "-", " ">> \o ts.subtitle
       \o (IF hasNotes THEN <<" ", "[", "h", "a", "s", " ", "n", "o", "t", "e", "s", "]">>
           ELSE <<>>)

\* extractSlideSummary; the dash of " — " is written "--".
extractSlideSummary(slide, index) ==
  LET ts == TitleAndSubtitle(slide.pageElements, [title |-> <<>>, subtitle |-> <<>>])
      hasNotes == Len(extractSpeakerNotes(slide.notesPage)) > 0
  IN <<"S", "l", "i", "d", "e", " ">> \o NumberToString(index + 1)
       \o <<" ", "(", "I", "D", ":", " ">> \o slide.objectId \o <<")">>
       \o (IF ts.title # <<>> THEN <<":", " ">> \o ts.title ELSE <<>>)
       \o (IF ts.subtitle # <<>> THEN <<" ", "-", "-", " ">> \o ts.subtitle ELSE <<>>)
       \o (IF hasNotes THEN <<" ", "[", "h", "a", "s", " ", "n", "o", "t", "e", "s", "]">>
           ELSE <<>>)

\* ------------------------------------------- slides: helpers on their own
OneRun(cs) == Text(<<cs>>)

\* Page elements without children: shapes with no, blank and real text, word
\* art, and tables without and with a cell.
LeafElements ==
  { Shape(NONE, Text(<<>>)), Shape(NONE, OneRun(<<" ">>)), Shape(NONE, OneRun(<<"A">>)),
    Shape(NONE, Text(<< <<"B">>, <<"\n">> >>)), WordArt(<<"W">>), Table(<<>>),
    Table(<< <<OneRun(<<"c">>)>> >>) }

InnerGroups == {Group(c) : c \in SeqsFromZero(LeafElements, MaxInnerChildren)}

TopGroups == {Group(c) : c \in SeqsFromZero(LeafElements \cup InnerGroups, MaxChildren)}

HandlersOff ==
  /\ env = [GW_USER_EMAIL |-> NONE, keyPath |-> NONE, keyFile |-> "missing"]
  /\ cachedKey = NONE
  /\ keyReads = 0
  /\ contexts = {}
  /\ inv = [i \in Invs |-> Idle]
  /\ mail = MailOff
  /\ rb = BodyOff
  /\ tr = TruncateOff

GroupTextInit ==
  /\ fn \in {[pc |-> "element", element |-> g, text |-> <<>>] : g \in TopGroups}
  /\ HandlersOff

\* const elText = extractTextFromPageElement(el)
ExtractText ==
  /\ fn.pc = "element"
  /\ fn' = [fn EXCEPT !.pc = "text", !.text = extractTextFromPageElement(fn.element)]
  /\ UNCHANGED <<hvars, mail, rb, tr>>

GroupTextNext == ExtractText

SpecGroupText == GroupTextInit /\ [][GroupTextNext]_vars

NoNotesPage == [present |-> FALSE, pageElements |-> <<>>]

NotesPage(els) == [present |-> TRUE, pageElements |-> els]

NotesElements ==
  { Shape("BODY", Text(<<>>)), Shape("BODY", OneRun(<<"N">>)), Shape("BODY", OneRun(<<"M">>)),
    Shape("TITLE", OneRun(<<"X">>)), WordArt(<<"W">>) }

NotesInit ==
  /\ fn \in { [pc |-> "notesPage", notesPage |-> n, notes |-> <<>>] :
               n \in {NoNotesPage} \cup
                     {NotesPage(els) : els \in SeqsFromZero(NotesElements, MaxNotes)} }
  /\ HandlersOff

\* const notes = extractSpeakerNotes(slide)
SpeakerNotes ==
  /\ fn.pc = "notesPage"
  /\ fn' = [fn EXCEPT !.pc = "notes", !.notes = extractSpeakerNotes(fn.notesPage)]
  /\ UNCHANGED <<hvars, mail, rb, tr>>

NotesNext == SpeakerNotes

SpecNotes == NotesInit /\ [][NotesNext]_vars

SlideElements ==
  { Shape("TITLE", OneRun(<<"A">>)), Shape("TITLE", Text(<<>>)),
    Shape("CENTERED_TITLE", OneRun(<<"B">>)), Shape("SUBTITLE", OneRun(<<"S">>)),
    Shape("SUBTITLE", OneRun(<<" ">>)), Shape("BODY", OneRun(<<"x">>)) }

Slides ==
  { [objectId |-> <<"p", "1">>, pageElements |-> els, notesPage |-> n] :
      els \in SeqsFromZero(SlideElements, MaxPageElements),
      n \in { NoNotesPage, NotesPage(<<Shape("BODY", Text(<<>>))>>),
              NotesPage(<<Shape("BODY", OneRun(<<"N">>))>>) } }

SummaryInit ==
  /\ fn \in { [pc |-> "slide", slide |-> sl, index |-> k, summary |-> <<>>] :
               sl \in Slides, k \in 0..1 }
  /\ HandlersOff

\* extractSlideSummary(slide, i) in get_presentation
SlideSummary ==
  /\ fn.pc = "slide"
  /\ fn' = [fn EXCEPT !.pc = "summary", !.summary = extractSlideSummary(fn.slide, fn.index)]
  /\ UNCHANGED <<hvars, mail, rb, tr>>

SummaryNext == SlideSummary

SpecSummary == SummaryInit /\ [][SummaryNext]_vars

\* The texts, in order, of the shapes of `els` with one of the placeholder
\* types `roles` and non-empty text.
TextsOfRole(els, roles) ==
  LET chosen == SelectSeq(els, LAMBDA el : /\ el.shape.present
                                            /\ el.shape.placeholder \in roles
                                            /\ Trim(Flatten(el.shape.text.runs)) # <<>>)
  IN [j \in 1..Len(chosen) |-> Trim(Flatten(chosen[j].shape.text.runs))]

LastOrEmpty(texts) == IF texts = <<>> THEN <<>> ELSE texts[Len(texts)]

\* C16: extractSlideSummary(slide, index) is "Slide {index+1} (ID: {id})",
\* then ": {title}" exactly when the title is non-empty, then " -- {subtitle}"
\* exactly when the subtitle is non-empty, then " [has notes]" exactly when the
\* speaker notes are non-empty, and nothing else; title and subtitle are texts
\* of top-level TITLE/CENTERED_TITLE and SUBTITLE placeholders.
C16_SlideSummary ==
  fn.pc = "summary" =>
    LET title == LastOrEmpty(TextsOfRole(fn.slide.pageElements, {"TITLE", "CENTERED_TITLE"}))
        subtitle == LastOrEmpty(TextsOfRole(fn.slide.pageElements, {"SUBTITLE"}))
        notes == TextsOfRole(fn.slide.notesPage.pageElements, {"BODY"})
    IN fn.summary =
         <<"S", "l", "i", "d", "e", " ">> \o (IF fn.index = 0 THEN <<"1">> ELSE <<"2">>)
           \o <<" ", "(", "I", "D", ":", " ", "p", "1", ")">>
           \o (IF title = <<>> THEN <<>> ELSE <<":", " ">> \o title)
           \o (IF subtitle = <<>> THEN <<>> ELSE <<" ", "-", "-", " ">> \o subtitle)
           \o (IF notes = <<>> THEN <<>>
               ELSE <<" ", "[", "h", "a", "s", " ", "n", "o", "t", "e", "s", "]">>)

\* C16 witness: the first slide, with the title "A", a blank subtitle and
\* notes: "Slide 1 (ID: p1): A [has notes]".
C16_Witness ==
  /\ fn.pc = "summary"
  /\ fn.index = 0
  /\ fn.slide.pageElements = <<Shape("TITLE", OneRun(<<"A">>)), Shape("SUBTITLE", OneRun(<<" ">>))>>
  /\ fn.slide.notesPage = NotesPage(<<Shape("BODY", OneRun(<<"N">>))>>)
  /\ fn.summary = <<"S", "l", "i", "d", "e", " ", "1", " ", "(", "I", "D", ":", " ", "p", "1", ")",
                    ":", " ", "A", " ", "[", "h", "a", "s", " ", "n", "o", "t", "e", "s", "]">>

\* The BODY placeholders of a notes page, in order.
BodyElements(notesPage) ==
  SelectSeq(notesPage.pageElements,
            LAMBDA el : el.shape.present /\ el.shape.placeholder = "BODY")

\* C17 as stated: the notes are the text of the first BODY element of the notes
\* page, and empty when there is none.
C17_Original ==
  fn.pc = "notes" =>
    LET bodies == BodyElements(fn.notesPage) IN
    fn.notes = IF bodies = <<>> THEN <<>> ELSE Trim(Flatten(bodies[1].shape.text.runs))

\* C17 amended: the notes are the text of the first BODY element of the notes
\* page whose text is non-empty, and empty when there is none; a BODY element
\* with empty text is passed over, and no element after the first BODY element
\* with text determines the result.
C17_FirstBodyWithText ==
  fn.pc = "notes" =>
    LET texts == TextsOfRole(fn.notesPage.pageElements, {"BODY"}) IN
    fn.notes = IF texts = <<>> THEN <<>> ELSE texts[1]

\* C17 witness: a TITLE element, then the BODY elements "N" and "M": the notes
\* are "N".
C17_Witness ==
  /\ fn.pc = "notes"
  /\ fn.notesPage = NotesPage(<< Shape("TITLE", OneRun(<<"X">>)), Shape("BODY", OneRun(<<"N">>)),
                                 Shape("BODY", OneRun(<<"M">>)) >>)
  /\ fn.notes = <<"N">>

\* The elements without children beneath `element`, depth first.
RECURSIVE LeavesOf(_)
RECURSIVE LeavesOfAll(_)
LeavesOfAll(els) == IF els = <<>> THEN <<>> ELSE LeavesOf(Head(els)) \o LeavesOfAll(Tail(els))

LeavesOf(element) ==
  IF element.elementGroup.present THEN LeavesOfAll(element.elementGroup.children)
  ELSE <<element>>

\* The text of an element without children.
LeafText(el) ==
  IF el.shape.present THEN Trim(Flatten(el.shape.text.runs))
  ELSE IF el.table.present
    THEN IF el.table.rows = <<>> THEN <<>>
         ELSE <<"[", "T", "a", "b", "l", "e", "]", "\n">> \o extractTextFromTable(el.table)
  ELSE el.wordArt.chars

\* C18: the text of a group is the non-empty texts of the elements beneath it,
\* in depth-first order, joined by single newlines; a group with nothing but
\* empty texts beneath it gives the empty string, and the text never begins or
\* ends with a newline nor holds two newlines in a row.
C18_GroupText ==
  fn.pc = "text" =>
    LET leaves == LeavesOf(fn.element)
        texts == SelectSeq([j \in 1..Len(leaves) |-> LeafText(leaves[j])],
                           LAMBDA t : t # <<>>)
    IN /\ fn.text = Join(texts, <<"\n">>)
       /\ texts = <<>> => fn.text = <<>>
       /\ fn.text # <<>> => fn.text[1] # "\n" /\ fn.text[Len(fn.text)] # "\n"
       /\ \A j \in 1..Len(fn.text) - 1 : ~(fn.text[j] = "\n" /\ fn.text[j + 1] = "\n")

\* C18 witness: a group of two groups, the first with a blank shape and the
\* shape "A", the second with an empty table and the word art "W": "A\nW".
C18_Witness ==
  /\ fn.pc = "text"
  /\ fn.element = Group(<< Group(<<Shape(NONE, OneRun(<<" ">>)), Shape(NONE, OneRun(<<"A">>))>>),
                           Group(<<Table(<<>>), WordArt(<<"W">>)>>) >>)
  /\ fn.text = <<"A", "\n", "W">>

\* ------------------------------------------------- utils: formatFileSize
KB == 1024

MB == 1024 * 1024

GB == 1024 * 1024 * 1024

\* (numBytes / unit).toFixed(1), in tenths: the tenth nearest to the quotient,
\* the larger one of two equally near. The quotient by a power of two is exact
\* in a double; the division is done in two steps to stay within 32 bits.
Tenths(numBytes, unit) ==
  LET r == numBytes % unit
      k == unit \div 1024
  IN 10 * (numBytes \div unit) + (10 * (r \div 1024) + (10 * (r % 1024) + 512 * k) \div 1024) \div k

\* The digits of toFixed(1)
toFixed1(tenths) == NumberToString(tenths \div 10) \o <<".">> \o NumberToString(tenths % 10)

UnknownSize == <<"u", "n", "k", "n", "o", "w", "n", " ", "s", "i", "z", "e">>

\* A size as the backends give it: null or undefined, a number, or a string.
NoSize == [type |-> "null", num |-> 0, str |-> <<>>]

NumberSize(m) == [type |-> "number", num |-> m, str |-> <<>>]

StringSize(cs) == [type |-> "string", num |-> 0, str |-> cs]

\* formatFileSize with KB and MB chosen by the rounded value.
formatFileSize_ByDisplayed(bytes) ==
  IF bytes.type = "null" THEN UnknownSize
  ELSE LET parsed == IF bytes.type = "string" THEN parseInt(bytes.str)
                     ELSE [nan |-> FALSE, value |-> bytes.num]
           numBytes == parsed.value
       IN IF parsed.nan THEN UnknownSize
          ELSE IF numBytes < KB THEN NumberToString(numBytes) \o <<" ", "B">>
          ELSE IF Tenths(numBytes, KB) < 10240
            THEN toFixed1(Tenths(numBytes, KB)) \o <<" ", "K", "B">>
          ELSE IF Tenths(numBytes, MB) < 10240
            THEN toFixed1(Tenths(numBytes, MB)) \o <<" ", "M", "B">>
          ELSE toFixed1(Tenths(numBytes, GB)) \o <<" ", "G", "B">>

formatFileSize(bytes) ==
  IF bytes.type = "null" THEN UnknownSize
  ELSE LET parsed == IF bytes.type = "string" THEN parseInt(bytes.str)
                     ELSE [nan |-> FALSE, value |-> bytes.num]
           numBytes == parsed.value
       IN IF parsed.nan THEN UnknownSize
          ELSE IF numBytes < KB THEN NumberToString(numBytes) \o <<" ", "B">>
          ELSE IF numBytes < MB THEN toFixed1(Tenths(numBytes, KB)) \o <<" ", "K", "B">>
          ELSE IF numBytes < GB THEN toFixed1(Tenths(numBytes, MB)) \o <<" ", "M", "B">>
          ELSE toFixed1(Tenths(numBytes, GB)) \o <<" ", "G", "B">>

\* Byte counts at the low end, around each unit and around the counts whose
\* tenth rounds up to 1024.0.
ByteCounts ==
  (0..MaxNear) \cup
  {u + d : u \in {KB, 2 * KB, MB, GB, 1048525, 1073689396}, d \in (0 - MaxNear)..MaxNear}

SizeStrings ==
  { <<>>, <<"x">>, <<"2", "0", "4", "8">>, <<"1", "2", "x">>,
    <<"1", "0", "4", "8", "5", "7", "5">> }

Sizes ==
  {NoSize} \cup {NumberSize(m) : m \in ByteCounts} \cup {StringSize(cs) : cs \in SizeStrings}

SizeInit ==
  /\ fn \in {[pc |-> "bytes", bytes |-> b, out |-> <<>>] : b \in Sizes}
  /\ HandlersOff

\* `Size: ${formatFileSize(file.size)}`
FormatSize ==
  /\ fn.pc = "bytes"
  /\ fn' = [fn EXCEPT !.pc = "size", !.out = formatFileSize(fn.bytes)]
  /\ UNCHANGED <<hvars, mail, rb, tr>>

SizeNext == FormatSize

SpecSize == SizeInit /\ [][SizeNext]_vars

\* The byte count of a size that has one: the number, or the digits of the
\* string.
HasCount(bytes) ==
  \/ bytes.type = "number"
  \/ bytes.type = "string" /\ bytes.str # <<>> /\ IsDigit(bytes.str[1])

CountOf(bytes) ==
  IF bytes.type = "number" THEN bytes.num ELSE DecimalValue(LeadingDigits(bytes.str))

\* The text is "w.d unit" with w.d the tenth nearest to count / size.
ShowsNearestTenth(out, count, size, unit) ==
  \E w \in 0..1024, d \in 0..9 :
    /\ out = NumberToString(w) \o <<".">> \o <<DigitChars[d + 1]>> \o <<" ">> \o unit
    /\ LET t == 10 * w + d - 10 * (count \div size)
           r == count % size
       IN /\ t \in 0..10
          /\ size <= MB => /\ 2 * t * size - size <= 20 * r
                           /\ 20 * r < 2 * t * size + size

\* C19 as stated: a KB or MB value is displayed only below 1024.0.
C19_Original ==
  fn.pc = "size" /\ HasCount(fn.bytes) /\ CountOf(fn.bytes) >= 1024 /\ CountOf(fn.bytes) < GB =>
    \E w \in 0..1023, d \in 0..9, unit \in {<<"K", "B">>, <<"M", "B">>, <<"G", "B">>} :
      fn.out = NumberToString(w) \o <<".">> \o <<DigitChars[d + 1]>> \o <<" ">> \o unit

\* C19 amended: a byte count is rendered in the largest unit among B/KB/MB/GB
\* for which the count divided by the unit is below 1024 (GB above that),
\* without decimals for B and rounded to one decimal for KB and above; the
\* rounded value of a count just below the next unit is displayed as 1024.0;
\* null, undefined and a string without leading digits give "unknown size".
C19_UnitByCount ==
  fn.pc = "size" =>
    IF ~HasCount(fn.bytes) THEN fn.out = <<"u", "n", "k", "n", "o", "w", "n", " ", "s", "i", "z", "e">>
    ELSE LET count == CountOf(fn.bytes) IN
         /\ count < 1024 => fn.out = NumberToString(count) \o <<" ", "B">>
         /\ count >= 1024 /\ count < 1048576 =>
              ShowsNearestTenth(fn.out, count, 1024, <<"K", "B">>)
         /\ count >= 1048576 /\ count < 1073741824 =>
              ShowsNearestTenth(fn.out, count, 1048576, <<"M", "B">>)
         /\ count >= 1073741824 => ShowsNearestTenth(fn.out, count, 1073741824, <<"G", "B">>)
         /\ count = 0 => fn.out = <<"0", " ", "B">>
         /\ count = 2048 => fn.out = <<"2", ".", "0", " ", "K", "B">>

\* C19 witness: 1048575 bytes, one below a megabyte, displayed as "1024.0 KB".
C19_Witness ==
  /\ fn.pc = "size"
  /\ fn.bytes = NumberSize(1048575)
  /\ fn.out = <<"1", "0", "2", "4", ".", "0", " ", "K", "B">>

\* --------------------------------------- get_email: decoding of a payload
\* The characters of body.data: of the URL-safe alphabet, padding, and others.
DataChars == {"Y", "Q", "-", "=", "!"}

Payloads ==
  {Part(m, "", d, <<>>) : m \in {"text/plain", "text/html"},
                          d \in SeqsUpTo(DataChars, MaxData)}

DecodeInit ==
  /\ fn \in {[pc |-> "message", payload |-> pl, parsed |-> EmptyParsed, result |-> NoEnvelope] :
               pl \in Payloads}
  /\ HandlersOff

\* A decoded code point as a unit of text read by stripHtml: the space and the
\* newline are whitespace, any other code point is a character of its own
\* (DataChars decode to no "<" and no "&", so to no tag and no entity).
CodeUnit(cp) == IF cp = 32 THEN " " ELSE IF cp = 10 THEN "\n" ELSE ToString(cp)

AsUnits(x) ==
  IF x.present THEN Str([i \in 1..Len(x.chars) |-> CodeUnit(x.chars[i])]) ELSE x

\* get_email from the answer of messages.get to its return: extractEmailBody,
\* getReadableBody and the text of the response, inside the handler's try.
\* No step of it throws on the characters of body.data.
ParseMessage ==
  /\ fn.pc = "message"
  /\ LET parsed == extractEmailBody(fn.payload)
         body == getReadableBody([parsed EXCEPT !.textBody = AsUnits(@),
                                                !.htmlBody = AsUnits(@)])
     IN fn' = [fn EXCEPT !.pc = "returned", !.parsed = parsed,
                         !.result = Success(<< TextItem(<<"From: ... --- Body ---", body>>) >>)]
  /\ UNCHANGED <<hvars, mail, rb, tr>>

DecodeNext == ParseMessage

SpecDecode == DecodeInit /\ [][DecodeNext]_vars

\* URL-safe base64: characters of the alphabet, then at most two "=", and a
\* length that a whole number of bytes can have.
IsUrlSafeBase64(data) ==
  \E n \in 0..Len(data) :
    /\ \A j \in 1..n : data[j] \in {"-", "_"} \/ (B64Value(data[j]) >= 0 /\ data[j] \notin {"+", "/"})
    /\ \A j \in (n + 1)..Len(data) : data[j] = "="
    /\ Len(data) - n <= 2
    /\ n % 4 # 1
    /\ Len(data) > n => Len(data) % 4 = 0

\* C20 as stated: a payload that is not valid URL-safe base64 makes get_email
\* return an error envelope, and no body is decoded from it.
C20_Original ==
  fn.pc = "returned" /\ ~IsUrlSafeBase64(fn.payload.data) =>
    /\ fn.result.isError
    /\ fn.parsed.textBody = Null
    /\ fn.parsed.htmlBody = Null

\* ------------------------------------------- decodeBase64Url on encoded bytes
MaxBytes == 3

\* Bytes of ASCII text (">", "?", "A"), of a two-byte UTF-8 sequence (C3 A9) and
\* bytes that belong to no UTF-8 text (FB, FF).
ByteValues == {62, 63, 65, 195, 169, 251, 255}

\* The characters the sender writes for three, two and one bytes: standard
\* base64 with "-" for "+" and "_" for "/", padded with "=" or not.
UrlChar(v) ==
  IF v = 62 THEN "-" ELSE IF v = 63 THEN "_" ELSE B64Alphabet[v + 1]

RECURSIVE EncodeBase64Url(_, _)
EncodeBase64Url(b, pad) ==
  IF b = <<>> THEN <<>>
  ELSE IF Len(b) = 1
    THEN <<UrlChar(b[1] \div 4), UrlChar((b[1] % 4) * 16)>>
           \o (IF pad THEN <<"=", "=">> ELSE <<>>)
  ELSE IF Len(b) = 2
    THEN <<UrlChar(b[1] \div 4), UrlChar((b[1] % 4) * 16 + (b[2] \div 16)),
           UrlChar((b[2] % 16) * 4)>>
           \o (IF pad THEN <<"=">> ELSE <<>>)
  ELSE <<UrlChar(b[1] \div 4), UrlChar((b[1] % 4) * 16 + (b[2] \div 16)),
         UrlChar((b[2] % 16) * 4 + (b[3] \div 64)), UrlChar(b[3] % 64)>>
         \o EncodeBase64Url(SubSeq(b, 4, Len(b)), pad)

Base64Init ==
  /\ fn \in {[pc |-> "bytes", bytes |-> b, data |-> <<>>, out |-> <<>>] :
               b \in SeqsFromZero(ByteValues, MaxBytes)}
  /\ HandlersOff

\* The sender encodes the bytes of a body into part.body.data.
EncodeBytes ==
  /\ fn.pc = "bytes"
  /\ \E pad \in BOOLEAN :
       fn' = [fn EXCEPT !.pc = "encoded", !.data = EncodeBase64Url(fn.bytes, pad)]
  /\ UNCHANGED <<hvars, mail, rb, tr>>

\* decodeBase64Url(part.body.data)
DecodeData ==
  /\ fn.pc = "encoded"
  /\ fn' = [fn EXCEPT !.pc = "decoded", !.out = decodeBase64Url(fn.data)]
  /\ UNCHANGED <<hvars, mail, rb, tr>>

Base64Next == EncodeBytes \/ DecodeData

SpecBase64 == Base64Init /\ [][Base64Next]_vars

\* The UTF-8 bytes of a string of code points below U+10000.
RECURSIVE Utf8Bytes(_)
Utf8Bytes(cps) ==
  IF cps = <<>> THEN <<>>
  ELSE LET c == Head(cps) IN
       (IF c < 128 THEN <<c>>
        ELSE IF c < 2048 THEN <<192 + (c \div 64), 128 + (c % 64)>>
        ELSE <<224 + (c \div 4096), 128 + ((c \div 64) % 64), 128 + (c % 64)>>)
       \o Utf8Bytes(Tail(cps))

\* The bytes are the UTF-8 form of a text of one- and two-byte characters.
RECURSIVE IsUtf8Text(_)
IsUtf8Text(b) ==
  IF b = <<>> THEN TRUE
  ELSE IF b[1] < 128 THEN IsUtf8Text(Tail(b))
  ELSE /\ b[1] >= 194 /\ b[1] <= 223
       /\ Len(b) >= 2 /\ b[2] >= 128 /\ b[2] <= 191
       /\ IsUtf8Text(SubSeq(b, 3, Len(b)))

\* C21 as stated: for every byte sequence b, decoding the URL-safe base64 of b
\* gives back the bytes b.
C21_Original ==
  fn.pc = "decoded" => Utf8Bytes(fn.out) = fn.bytes

\* C21: for every byte sequence b that is UTF-8 text, decodeBase64Url of the
\* URL-safe base64 of b (padded or not) is the text whose UTF-8 bytes are b;
\* a byte that belongs to no UTF-8 sequence is decoded to U+FFFD and is lost.
C21_LeftInverseOnText ==
  fn.pc = "decoded" =>
    /\ IsUtf8Text(fn.bytes) => Utf8Bytes(fn.out) = fn.bytes
    /\ ~IsUtf8Text(fn.bytes) =>
         \E j \in 1..Len(fn.out) : fn.out[j] = ReplacementChar

\* C21 witness: the bytes of "???", whose encoding "Pz8_" holds a "_", decoded
\* to the same three characters.
C21_Witness ==
  /\ fn.pc = "decoded"
  /\ fn.bytes = <<63, 63, 63>>
  /\ fn.data = <<"P", "z", "8", "_">>
  /\ fn.out = <<63, 63, 63>>

\* ------------------------------------------------- index.ts: server start-up
MaxCalls == 2

\* README.md, the table "Available Tools".
ReadmeTools ==
  { "search_emails", "get_email", "list_labels", "search_drive_files", "get_file_content",
    "get_file_metadata", "get_spreadsheet", "read_sheet_range", "batch_read_sheet_ranges",
    "get_document", "get_document_structure", "list_users", "list_calendars",
    "search_events", "get_event", "get_freebusy", "search_presentations",
    "get_presentation", "get_slide" }

\* The register calls of index.ts, in their order; each one calls server.tool
\* once per tool of its file.
Registrations ==
  <<GmailTools, DriveTools, AdminTools, SheetsTools, DocsTools, CalendarTools>>

StartInit ==
  /\ fn = [pc |-> "boot", step |-> 0, registered |-> {}, calls |-> <<>>]
  /\ HandlersOff

\* register<File>Tools(server)
RegisterTools ==
  /\ fn.pc = "boot"
  /\ fn.step < Len(Registrations)
  /\ fn' = [fn EXCEPT !.step = fn.step + 1,
                      !.registered = fn.registered \cup Registrations[fn.step + 1]]
  /\ UNCHANGED <<hvars, mail, rb, tr>>

\* await server.connect(transport)
Connect ==
  /\ fn.pc = "boot"
  /\ fn.step = Len(Registrations)
  /\ fn' = [fn EXCEPT !.pc = "serving"]
  /\ UNCHANGED <<hvars, mail, rb, tr>>

\* The dispatch shell receives a tool call: a registered name reaches its
\* handler, any other name is answered by the shell as an unknown tool.
CallTool ==
  /\ fn.pc = "serving"
  /\ Len(fn.calls) < MaxCalls
  /\ \E name \in ReadmeTools \cup Tools :
       fn' = [fn EXCEPT !.calls =
                Append(@, [name |-> name, handled |-> name \in fn.registered])]
  /\ UNCHANGED <<hvars, mail, rb, tr>>

StartNext == RegisterTools \/ Connect \/ CallTool

SpecStart == StartInit /\ [][StartNext]_vars

\* C22: after start-up every tool of the README's table is registered under
\* its name, and a call of any listed name reaches a handler.
C22_Original ==
  fn.pc = "serving" =>
    /\ ReadmeTools \subseteq fn.registered
    /\ \A j \in 1..Len(fn.calls) :
         fn.calls[j].name \in ReadmeTools => fn.calls[j].handled

\* ------------------------------------------------ claims on the handlers (2)
LastEvent(s) == s.trace[Len(s.trace)]

\* The export of a native document failed in s, and what the handler did then:
\* it returned the informational envelope, the failed export is its last
\* backend call and the outer catch was not entered.
ExportFailureReported(s) ==
  /\ s.pc = "returned"
  /\ IsErrorEnvelope(s.result)
  /\ s.result.content[1].text[1] = "[label: name]"
  /\ s.result.content[1].text[2] = "Failed to export: "
  /\ s.result.content[1].text[1] # ErrorPhrase(s.tool)
  /\ LastEvent(s) = Ev("throw", "export", s.ctx, NONE)
  /\ s.trace[Len(s.trace) - 1].ev = "call"
  /\ s.trace[Len(s.trace) - 1].what = "files.export"
  /\ ~Threw(s, "backend")

LinkShown(s) == s.result.content[1].text[Len(s.result.content[1].text)]

\* C23 as stated: when the export of a native document fails, get_file_content
\* returns an informational isError envelope whose text holds the file's view
\* link, makes no further backend call and does not use the outer error path.
C23_Original ==
  \A i \in Invs :
    (inv[i].tool = "get_file_content" /\ Threw(inv[i], "export")) =>
      /\ ExportFailureReported(inv[i])
      /\ LinkShown(inv[i]) = "https://docs.example/view"

\* C23: when the export of a native document fails, get_file_content returns
\* an informational isError envelope whose text ends with the file's view link
\* when the metadata carried one and with "N/A" when it did not, makes no
\* further backend call and does not use the outer error path.
C23_ExportFailureEnvelope ==
  \A i \in Invs :
    (inv[i].tool = "get_file_content" /\ Threw(inv[i], "export")) =>
      /\ ExportFailureReported(inv[i])
      /\ inv[i].link # NONE => LinkShown(inv[i]) = inv[i].link
      /\ inv[i].link = NONE => LinkShown(inv[i]) = "N/A"

\* C23 witness: an export failed for a file with a view link, and the envelope
\* shows that link.
C23_Witness ==
  \E i \in Invs :
    /\ inv[i].tool = "get_file_content"
    /\ Threw(inv[i], "export")
    /\ inv[i].link = "https://docs.example/view"
    /\ LinkShown(inv[i]) = "https://docs.example/view"

\* The backend calls of s that were sent as request `what`.
CallsNamed(s, what) == {j \in EventsOf(s, "call") : s.trace[j].what = what}

\* A backend call of s was rejected.
BackendFailed(s) == Threw(s, "backend") \/ Threw(s, "export")

\* C24: in every invocation, once a backend call has failed the handler sends
\* no further backend call (the failure is the last thing it did) and has
\* returned an error envelope; each request is sent at most once: one list
\* request and at most one detail request per listed message in search_emails,
\* one users.list per page in list_users, and no request twice elsewhere.
C24_NothingRetried ==
  \A i \in Invs :
    LET s == inv[i] IN
    /\ BackendFailed(s) =>
         /\ s.pc = "returned"
         /\ IsErrorEnvelope(s.result)
         /\ LastEvent(s).ev = "throw"
         /\ Cardinality(EventsOf(s, "throw")) = 1
         /\ \A j \in EventsOf(s, "call") : j < Len(s.trace)
    /\ s.tool = "search_emails" =>
         /\ Cardinality(CallsNamed(s, "users.messages.list")) <= 1
         /\ Cardinality(CallsNamed(s, "users.messages.get")) <= s.n
    /\ s.tool = "list_users" =>
         Cardinality(CallsNamed(s, "users.list")) <= s.pages + 1
    /\ s.tool \notin {"search_emails", "list_users"} =>
         \A j, k \in EventsOf(s, "call") : j # k => s.trace[j].what # s.trace[k].what

\* C24 witness: search_emails listed two messages and its first detail request
\* failed: two calls, then the error envelope.
C24_Witness ==
  \E i \in Invs :
    /\ inv[i].tool = "search_emails"
    /\ inv[i].n = 2
    /\ Cardinality(EventsOf(inv[i], "call")) = 2
    /\ Threw(inv[i], "backend")
    /\ inv[i].pc = "returned"
    /\ inv[i].result.isError

\* The invocation s run alone in a fresh process on the same configuration:
\* its head with no key cached and no client constructed yet, then the answers
\* s was given, one after the other.
RunAlone(s) ==
  LET s0 == [Idle EXCEPT !.tool = s.tool, !.userEmail = s.userEmail, !.cap = s.cap]
      id == HandlerIdentity(s.tool, s.userEmail, env)
      a  == createAuthClient(id.value, NONE, env, {})
      ctxs == IF id.ok /\ a.ok THEN {a.ctx} ELSE {}
      R[k \in 0..Len(s.answers)] ==
        IF k = 0 THEN Enter(s0, id, a, ctxs)
        ELSE [Continue(R[k - 1], s.answers[k], ctxs)
                EXCEPT !.answers = Append(@, s.answers[k])]
  IN R[Len(s.answers)]

\* What an invocation did and holds, without the name of its client object.
Observable(s) ==
  [s EXCEPT !.ctx = 0,
            !.trace = [j \in 1..Len(s.trace) |-> [s.trace[j] EXCEPT !.ctx = 0]]]

\* A step of one invocation leaves every other invocation as it is, and leaves
\* the clients constructed so far as they are.
StepIsLocal ==
  \A i \in Invs :
    inv'[i] # inv[i] =>
      /\ \A j \in Invs \ {i} : inv'[j] = inv[j]
      /\ contexts \subseteq contexts'

\* C25: for every interleaving of the invocations at their awaits, what each
\* invocation returns (and each request it sends, with the identity it is sent
\* for, and each of its accumulators) equals what it returns when run alone on
\* the same configuration and backend answers; a step of one invocation writes
\* no state of another, and the only state one invocation writes and another
\* reads is the cached key, which is the key every one of them would load.
C25_InvocationsIndependent ==
  /\ [](\A i \in Invs :
          Entered(inv[i]) =>
            /\ Observable(inv[i]) = Observable(RunAlone(inv[i]))
            /\ inv[i].result = RunAlone(inv[i]).result)
  /\ [](cachedKey # NONE => cachedKey = env.keyFile)
  /\ [][StepIsLocal]_vars

\* C25 witness: two invocations, entered one after the other, answered in the
\* opposite order: the second one got its client after the first and returned
\* while the first was still waiting for its second answer.
C25_Witness ==
  \E i, j \in Invs :
    /\ i # j
    /\ inv[i].ctx = 1 /\ inv[j].ctx = 2
    /\ inv[i].tool = "search_emails" /\ inv[i].pc = "await" /\ Len(inv[i].answers) = 1
    /\ inv[j].pc = "returned" /\ Len(inv[j].answers) = 2
    /\ inv[i].resolved # inv[j].resolved

\* ----------------------------------------------- claims on extractEmailBody (2)
\* The class of a node, tested in the order filename, children, body.
ClassOf(part) ==
  IF ~Falsy(part.filename) THEN "attachment"
  ELSE IF Len(part.parts) > 0 THEN "container"
  ELSE IF part.data # <<>> THEN "leaf-with-body"
  ELSE "empty"

\* One descriptor for each node with a filename that is not beneath another
\* node with a filename, in depth-first pre-order.
RECURSIVE AttachmentsOf(_)
AttachmentsOfAll(ps) ==
  LET F[k \in 0..Len(ps)] == IF k = 0 THEN <<>> ELSE F[k - 1] \o AttachmentsOf(ps[k])
  IN F[Len(ps)]

AttachmentsOf(part) ==
  CASE ClassOf(part) = "attachment" ->
         << [filename |-> part.filename,
             mimeType |-> IF Falsy(part.mimeType) THEN "" ELSE part.mimeType,
             size |-> part.size, attachmentId |-> part.attachmentId] >>
    [] ClassOf(part) = "container" -> AttachmentsOfAll(part.parts)
    [] OTHER -> <<>>

\* The nodes of class leaf-with-body that are beneath no attachment, in
\* depth-first order: a container's own body is not among them.
RECURSIVE LeavesWithBody(_)
LeavesWithBodyOfAll(ps) ==
  LET F[k \in 0..Len(ps)] == IF k = 0 THEN <<>> ELSE F[k - 1] \o LeavesWithBody(ps[k])
  IN F[Len(ps)]

LeavesWithBody(part) ==
  CASE ClassOf(part) = "container" -> LeavesWithBodyOfAll(part.parts)
    [] ClassOf(part) = "leaf-with-body" -> <<part>>
    [] OTHER -> <<>>

BodyFromLeaf(body, leaves, m) ==
  body.present =>
    \E j \in 1..Len(leaves) :
      leaves[j].mimeType = m /\ body.chars = decodeBase64Url(leaves[j].data)

\* C26: extractEmailBody treats every node as exactly one of attachment,
\* container, leaf-with-body or empty, testing the filename first, then the
\* children, then the body: the attachment list is, in depth-first pre-order,
\* one descriptor for each node with a filename that is beneath no other node
\* with a filename (the children of such a node are not visited), and a
\* recorded body is the payload of a leaf, never the body of a node with
\* children nor of a node with a filename or beneath one.
C26_NodeClasses ==
  mail.pc = "parsed" =>
    /\ mail.parsed.attachments = AttachmentsOf(mail.payload)
    /\ BodyFromLeaf(mail.parsed.textBody, LeavesWithBody(mail.payload), "text/plain")
    /\ BodyFromLeaf(mail.parsed.htmlBody, LeavesWithBody(mail.payload), "text/html")

\* C26 witness: a text/plain node with a body of its own and an attached child,
\* then an attached message that has an attached child itself: the two outer
\* attachments are recorded in this order, the inner one and the body of the
\* node with children are not.
C26_Witness ==
  /\ mail.pc = "parsed"
  /\ Len(mail.payload.parts) = 2
  /\ ClassOf(mail.payload.parts[1]) = "container"
  /\ mail.payload.parts[1].data # <<>>
  /\ mail.payload.parts[1].mimeType = "text/plain"
  /\ ClassOf(mail.payload.parts[2]) = "attachment"
  /\ Len(mail.payload.parts[2].parts) > 0
  /\ ClassOf(mail.payload.parts[2].parts[1]) = "attachment"
  /\ Len(mail.parsed.attachments) = 2
  /\ mail.parsed.attachments[1].filename = "note.txt"
  /\ mail.parsed.attachments[2].filename = "fwd.eml"
  /\ ~mail.parsed.textBody.present

\* ------------------------------------------ get_document_structure: outline
MsgRepeat == "Invalid count value"

\* "  ".repeat(count) and "#".repeat(count): a RangeError for a negative count.
repeat(unit, count) ==
  IF count < 0 THEN Throw(MsgRepeat) ELSE Ok([j \in 1..count |-> unit])

\* The line of one heading: indent, hashes, a space and the text.
OutlineLine(h) ==
  LET indent == repeat("  ", h.level - 1) IN
  IF ~indent.ok THEN indent
  ELSE LET hashes == repeat("#", h.level) IN
       IF ~hashes.ok THEN hashes
       ELSE Ok(indent.value \o hashes.value \o <<" ">> \o h.text \o <<"\n">>)

\* The for loop over the headings; the first throw leaves it.
RECURSIVE OutlineLines(_)
OutlineLines(headings) ==
  IF headings = <<>> THEN Ok(<<>>)
  ELSE LET line == OutlineLine(Head(headings)) IN
       IF ~line.ok THEN line
       ELSE LET rest == OutlineLines(Tail(headings)) IN
            IF ~rest.ok THEN rest ELSE Ok(<<line.value>> \o rest.value)

\* get_document_structure from the answer of documents.get to its return.
get_document_structure(body) ==
  LET headings == extractHeadings(body) IN
  IF headings = <<>>
    THEN Success(<< TextItem(<<"Document: title", "No headings found in this document.">>) >>)
  ELSE LET lines == OutlineLines(headings) IN
       IF lines.ok THEN Success(<< TextItem(<<"Document: title", "Headings:">> \o lines.value) >>)
       ELSE Catch("get_document_structure", lines.error)

\* Heading styles whose suffix is a number, zero, a negative number, digits
\* followed by another character, or no number.
OutlineStyles ==
  {Str(HeadingPrefix \o suffix) : suffix \in SeqsFromZero({"0", "1", "-", "x"}, MaxSuffix)}

OutlineElements ==
  {Paragraph(st, el) : st \in OutlineStyles, el \in {<<>>, <<TextRun(<<"T">>)>>}}

OutlineInit ==
  /\ fn \in { [pc |-> "document", body |-> [present |-> TRUE, content |-> c],
               headings |-> <<>>, result |-> NoEnvelope] :
               c \in SeqsFromZero(OutlineElements, MaxElements) }
  /\ HandlersOff

Outline ==
  /\ fn.pc = "document"
  /\ fn' = [fn EXCEPT !.pc = "returned", !.headings = extractHeadings(fn.body),
                      !.result = get_document_structure(fn.body)]
  /\ UNCHANGED <<hvars, mail, rb, tr>>

OutlineNext == Outline

SpecOutline == OutlineInit /\ [][OutlineNext]_vars

\* The suffix of a style is a positive number and nothing else.
IsPositiveNumber(suffix) ==
  /\ suffix # <<>>
  /\ \A j \in 1..Len(suffix) : IsDigit(suffix[j])
  /\ DecimalValue(suffix) >= 1

\* C27 as stated: every heading of extractHeadings has a level of at least 1,
\* a paragraph whose style suffix is not a positive number (0, a negative
\* number, digits followed by other characters) gives no heading, and
\* get_document_structure renders every heading without failing.
C27_Original ==
  fn.pc = "returned" =>
    /\ \A j \in 1..Len(fn.headings) : fn.headings[j].level >= 1
    /\ Len(fn.headings) =
         Len(SelectSeq(fn.body.content,
                       LAMBDA el : /\ IsPositiveNumber(WithoutPrefix(el.style.chars, HeadingPrefix))
                                   /\ Trim(extractParagraphText(el.elements)) # <<>>))
    /\ ~fn.result.isError

\* ------------------------------------- the key file changes while serving
MaxWrites == 1

\* What readFileSync(keyPath) can find: no file, a file that does not parse,
\* a key, another key.
KeyFiles == {"missing", "malformed", "sa-key", "sa-key-2"}

\* The file at GOOGLE_SERVICE_ACCOUNT_KEY_PATH is written, replaced or removed
\* by its owner; process.env stays as it is.
WriteKeyFile ==
  /\ ~Falsy(env.keyPath)
  /\ fn.writes < MaxWrites
  /\ \E f \in KeyFiles \ {env.keyFile} : env' = [env EXCEPT !.keyFile = f]
  /\ fn' = [fn EXCEPT !.writes = fn.writes + 1]
  /\ UNCHANGED <<cachedKey, keyReads, contexts, inv, mail, rb, tr>>

KeyInit ==
  /\ env \in EnvConfigs
  /\ cachedKey = NONE
  /\ keyReads = 0
  /\ contexts = {}
  /\ inv = [i \in Invs |-> Idle]
  /\ mail = MailOff
  /\ rb = BodyOff
  /\ tr = TruncateOff
  /\ fn = [pc |-> "key", writes |-> 0]

KeyNext == (\E i \in Invs : Invoke(i) \/ Respond(i)) \/ WriteKeyFile

SpecKey == KeyInit /\ [][KeyNext]_vars

\* C28: the cached key is set once: after the first successful load it is
\* never reassigned or cleared, whatever becomes of the key file; no later
\* construction of a client touches the file, so the file is loaded at most
\* once; every client is constructed with the cached key, also the clients of
\* invocations that are in flight together.
C28_KeyLoadedOnce ==
  /\ [](\A c \in contexts : cachedKey # NONE /\ c.key = cachedKey)
  /\ [][cachedKey # NONE => (cachedKey' = cachedKey /\ keyReads' = keyReads)]_vars
  /\ [][\A c \in contexts' \ contexts : c.key = cachedKey']_vars

\* C28 witness: two invocations are waiting for their answers, each with a
\* client of its own built from the key loaded by the first one; the file was
\* replaced by another key in between and was read once.
C28_Witness ==
  /\ cachedKey = "sa-key"
  /\ env.keyFile = "sa-key-2"
  /\ keyReads = 1
  /\ Cardinality(contexts) = 2
  /\ \A i \in Invs : inv[i].pc = "await"
  /\ \A c \in contexts : c.key = "sa-key"

\* Invocation i constructs its client in this step: it leaves the shell with
\* an identity.
Constructs(i) == inv[i].pc = "idle" /\ inv'[i].pc \in {"await", "returned"}
                   /\ ~Threw(inv'[i], "resolve")

KeyErrors == {MsgNoKeyPath, MsgReadFailed, MsgParseFailed}

\* C30: a failed load of the key leaves the shared state as it was: when the
\* key path is unset, the file cannot be read or does not parse, the handler
\* returns an error envelope with that message and without a backend call,
\* cachedKey stays empty and no client is constructed; the failure is not
\* remembered: every later construction reads the file again, and it succeeds
\* as soon as the file holds a key, after which no construction fails.
C30_FailedLoadNotMemoized ==
  /\ [](\A i \in Invs :
          Threw(inv[i], "auth") =>
            /\ inv[i].pc = "returned"
            /\ IsErrorEnvelope(inv[i].result)
            /\ inv[i].result = Catch(inv[i].tool, inv[i].result.content[1].text[2])
            /\ inv[i].result.content[1].text[2] \in KeyErrors
            /\ EventsOf(inv[i], "call") = {}
            /\ inv[i].ctx = 0)
  /\ [][\A i \in Invs :
          Constructs(i) =>
            IF cachedKey = NONE /\ (Falsy(env.keyPath) \/ env.keyFile \in {"missing", "malformed"})
              THEN /\ Threw(inv'[i], "auth")
                   /\ cachedKey' = NONE
                   /\ contexts' = contexts
                   /\ keyReads' = keyReads + (IF ~Falsy(env.keyPath) /\ env.keyFile = "malformed"
                                                THEN 1 ELSE 0)
              ELSE /\ ~Threw(inv'[i], "auth")
                   /\ cachedKey' = (IF cachedKey = NONE THEN env.keyFile ELSE cachedKey)
                   /\ inv'[i].pc = "await"]_vars

\* C30 witness: the first invocation failed on a key file that did not parse;
\* the file was then replaced by a key, and the second invocation loaded it
\* and is waiting for its backend answer.
C30_Witness ==
  \E i, j \in Invs :
    /\ Threw(inv[i], "auth")
    /\ inv[i].result.content[1].text[2] = MsgParseFailed
    /\ inv[j].pc = "await"
    /\ inv[j].ctx = 1
    /\ cachedKey = "sa-key"
    /\ keyReads = 2

\* --------------------------------------- search_emails: list, then details
MaxListed == 4

\* A step of the invocation as the backend sees it.
Sent(what, at) == [ev |-> "call", what |-> what, at |-> at]

Answered(what, at, ok) == [ev |-> IF ok THEN "answer" ELSE "reject", what |-> what, at |-> at]

\* The first message from position `from` on that has an id; 0 when none has.
\* (`if (!msg.id) continue`)
NextWithId(messages, from) ==
  LET P == {j \in from..Len(messages) : messages[j]} IN
  IF P = {} THEN 0 ELSE CHOOSE j \in P : \A k \in P : j <= k

\* The for loop over messages from position `from` up to its next await, or
\* past its end to the return of the handler.
FetchFrom(f, from) ==
  LET j == NextWithId(f.messages, from) IN
  IF j = 0
    THEN [f EXCEPT !.pc = "returned", !.showing = f.results,
                   !.result = OneText("Found results")]
    ELSE [f EXCEPT !.pc = "detail", !.at = j, !.trace = Append(@, Sent("get", j))]

\* AfterDetail that answers with the results fetched so far when a detail
\* request fails.
AfterDetail_KeepsFetched(f, ok) ==
  LET g == [f EXCEPT !.trace = Append(@, Answered("get", f.at, ok))] IN
  IF ~ok THEN [g EXCEPT !.pc = "returned", !.showing = g.results,
                        !.result = OneText("Found results")]
  ELSE FetchFrom([g EXCEPT !.results = g.results + 1], g.at + 1)

\* From the answer of users.messages.get for messages[f.at] on.
AfterDetail(f, ok) ==
  LET g == [f EXCEPT !.trace = Append(@, Answered("get", f.at, ok))] IN
  IF ~ok THEN [g EXCEPT !.pc = "returned", !.result = Catch("search_emails", MsgBackend)]
  ELSE FetchFrom([g EXCEPT !.results = g.results + 1], g.at + 1)

\* From the answer of users.messages.list on; messages is the list of the
\* answer, each message with an id or without.
AfterList(f, ok, messages) ==
  LET g == [f EXCEPT !.trace = Append(@, Answered("list", 0, ok))] IN
  IF ~ok THEN [g EXCEPT !.pc = "returned", !.result = Catch("search_emails", MsgBackend)]
  ELSE IF messages = <<>>
    THEN [g EXCEPT !.pc = "returned", !.result = OneText("No messages found for query")]
  ELSE FetchFrom([g EXCEPT !.messages = messages], 1)

SearchInit ==
  /\ fn = [pc |-> "idle", maxResults |-> 0, messages |-> <<>>, at |-> 0, results |-> 0,
           showing |-> 0, trace |-> <<>>, result |-> NoEnvelope]
  /\ HandlersOff

\* The handler up to `await gmail.users.messages.list({userId, q, maxResults})`.
SearchInvoke ==
  /\ fn.pc = "idle"
  /\ \E m \in 1..MaxListed :
       fn' = [fn EXCEPT !.pc = "list", !.maxResults = m, !.trace = <<Sent("list", 0)>>]
  /\ UNCHANGED <<hvars, mail, rb, tr>>

\* The answer to the list request: a rejection, or at most maxResults messages.
ListAnswer ==
  /\ fn.pc = "list"
  /\ \/ fn' = AfterList(fn, FALSE, <<>>)
     \/ \E messages \in SeqsFromZero(BOOLEAN, fn.maxResults) :
          fn' = AfterList(fn, TRUE, messages)
  /\ UNCHANGED <<hvars, mail, rb, tr>>

\* The answer to the pending detail request.
DetailAnswer ==
  /\ fn.pc = "detail"
  /\ \E ok \in BOOLEAN : fn' = AfterDetail(fn, ok)
  /\ UNCHANGED <<hvars, mail, rb, tr>>

SearchNext == SearchInvoke \/ ListAnswer \/ DetailAnswer

SpecSearch == SearchInit /\ [][SearchNext]_vars

\* The positions of the detail requests sent so far, in the order sent.
DetailsSent(f) ==
  LET calls == SelectSeq(f.trace, LAMBDA e : e.ev = "call" /\ e.what = "get")
  IN [j \in 1..Len(calls) |-> calls[j].at]

DetailsCompleted(f) ==
  Len(SelectSeq(f.trace, LAMBDA e : e.ev = "answer" /\ e.what = "get"))

\* The positions of the listed messages that have an id, in list order.
RECURSIVE IdsFrom(_, _)
IdsFrom(messages, from) ==
  IF from > Len(messages) THEN <<>>
  ELSE (IF messages[from] THEN <<from>> ELSE <<>>) \o IdsFrom(messages, from + 1)

IsPrefix(a, b) == Len(a) <= Len(b) /\ a = SubSeq(b, 1, Len(a))

====
